---- MODULE Spec2Model ----
(***************************************************************************)
(* A model of the job-autopilot form-fill engine (src/src/apply/*.ts).     *)
(*                                                                         *)
(* The module holds several sub-models, each with its own specification:   *)
(*   SpecBlock    question-block resolution (getQuestionBlock,             *)
(*                getRadioQuestionBlock)                                   *)
(*   SpecCombo    fillComboboxForQuestion, step by step                    *)
(*   SpecYesNo    answerYesNo in its three Ashby variants                  *)
(*   SpecAdapter  the adapter entry points autofillAshby (three variants), *)
(*                autofillGreenhouse and autofillLever                     *)
(*   SpecBatch    the batch orchestrator: platform detection, the job loop *)
(*                and its pause and stop controls                          *)
(*   SpecOffice   the office-excitement question and its phrasings         *)
(*   SpecFill     fillInputIfEmpty called repeatedly on one field          *)
(*   SpecText     the text functions: normalizeYesNo, looksAllCapsName,    *)
(*                toProperNameCase, extractStateOptions and the            *)
(*                demographic normalizers                                  *)
(*   SpecPass     the combobox calls of one autofillAshby pass             *)
(*   SpecRace     fillInputIfEmpty interleaved with the page's own writes  *)
(*   SpecPanel    the control panel: its child process, the start, control *)
(*                and kill requests, and the keys it sends to the batch    *)
(*   SpecUnknown  unknownJobs.js: the batch runs that record into it and   *)
(*                the reject request of the unknown-jobs UI                *)
(* A sub-model that a specification does not use stays in its idle state.  *)
(*                                                                         *)
(* Text is modelled as a sequence of one-character strings, so that        *)
(* trimming, case conversion and digit extraction are computed, not        *)
(* assumed.                                                                *)
(***************************************************************************)
EXTENDS Integers, Sequences, FiniteSets, TLC

VARIABLES
    \* ---- question-block resolution
    qbPc,        \* "off" | "ready" | "done"
    qbKind,      \* "question" (getQuestionBlock) | "radio" (getRadioQuestionBlock)
    qbAnchor,    \* outcome of q.isVisible(): "visible" | "hidden" | "raise"
    qbCounts,    \* input count of each existing div/section ancestor, level 1 first
    qbRaise,     \* the level whose count() raised in this call (0: none)
    qbResult,    \* 0: null, k > 0: the locator of ancestor level k
    \* ---- fillComboboxForQuestion
    cbVariant,   \* "ashby" (ashby.ts) | "mac" (ashby_mac.ts); the two differ in waits only
    cbPc,        \* "off" | "enter" | "click" | "clear" | "type" | "wait" | "exact"
                 \* | "first" | "keys" | "done"
    cbHasValue,  \* the value argument is a non-empty string
    cbOptions,   \* the options the page renders for the typed value, in order:
                 \* TRUE for an option whose text contains the value
    cbText,      \* the input's content: "empty" | "prior" (what it held before
                 \* the call) | "partial" | "typed" (the whole value, as
                 \* typed) | "option" (the text of the confirmed option)
    cbSelected,  \* 0: no option confirmed, k > 0: option k confirmed
    cbOptionsVisible, \* the local optionsVisible
    cbExactSeen, \* what exact.isVisible() gave: "unchecked" | "yes" | "no"
    cbTyped,     \* how many times input.type(value) ran in this call
    cbTiers,     \* the tiers that issued a click or key press, in order
    cbRet,       \* "none" | "true" | "false"
    \* ---- answerYesNo
    ynVariant,   \* "ashby1" (ashby.ts 162-176) | "ashby2" (ashby.ts 662-678)
                 \* | "mac" (ashby_mac.ts 240-329)
    ynKind,      \* per question block: "toggle" (a Yes and a No button) | "radio"
    ynScope,     \* per toggle block: the block getRadioQuestionBlock resolves
                 \* for its question text holds the two buttons
    ynSel,       \* per question block: "none" | "Yes" | "No", what the page shows selected
    ynScroll,    \* the viewport position (getBoundingClientRect is viewport-relative)
    ynRegistry,  \* answeredQuestionBlocks: module-level, lives as long as the process
    ynCalls,     \* resolver calls made so far
    ynLast,      \* the record of the latest answerYesNo call
    ynAnswered,  \* blocks of the posting that a call clicked in and returned true for
    \* ---- the adapter entry points
    adVariant,   \* "ashby1" | "ashby2" | "ashbyMac" | "greenhouse" | "lever"
    adFullName,  \* profile.fullName
    adNeedsRoute,\* the page is not yet on the canonical application URL
    adAutofilled,\* MyGreenhouse has populated the form before the call
    adToast,     \* the "Autofilled from MyGreenhouse" toast is on the page
    adStart,     \* text field -> the text it held when the adapter was called
    adField,     \* text field -> the text it holds
    adExisting,  \* text field -> the value the adapter read into a local
    adPc,        \* index of the adapter's next statement
    adStatus,    \* "off" | "running" | "returned" | "threw"
    adLog,       \* the writes made: <<field, text before, text after>>
    adUploaded,  \* a file was set on a file input during the call
    adSelected,  \* a button, radio or dropdown option was clicked during the call
    adRet,       \* the return value a following statement of the adapter tests
    adFaults,    \* page operations that have failed during the call
    \* ---- the batch orchestrator
    baVariant,   \* "applyBatch" (applyBatch.ts) | "applyBatchMac" (applyBatch_mac.ts)
    baJobs,      \* approved jobs not yet finished, the current one included
    baPc,        \* "off" | "check1".."check4" | "wait1".."wait4" | "goto" | "click"
                 \* | "detect" | "adapter" | "after" | "exit" | "done" | "failed"
    baUrl,       \* landedUrl of the current job
    baPlatform,  \* what detectPlatform returned for it
    baAdapter,   \* the adapter the page was handed to: "none" | "ashby"
                 \* | "greenhouse" | "lever"
    baStep,      \* statements of that adapter that have run
    baPaused,    \* setupControls: paused
    baStopped,   \* setupControls: stopped
    baInputLocked, \* setupControls: inputLocked
    baStopAt,    \* baStep when the stop request arrived inside an adapter (-1: none did)
    baBrokeAt,   \* the check at which the loop was left on a stop request
    \* ---- the office-excitement question
    ofVariant,   \* "ashby1" | "ashby2" | "ashbyMac"
    ofPage,      \* phrasing -> answerYesNo returns true for it on this page
    ofPc,        \* index of the next phrasing (0: the section is over)
    ofTried,     \* the answerYesNo calls made, in order, each with its result
    ofAnswered,  \* ashby_mac.ts: officeQuestionAnswered
    \* ---- repeated fillInputIfEmpty
    fiVariant,   \* "off" | "ashby" (ashby.ts 1068-1082) | "mac" (ashby_mac.ts 930-942)
    fiValue,     \* the value argument
    fiField,     \* what the first element matching the selector holds
    fiLog,       \* the calls made, in order: [env, before, filled, ret]
    \* ---- text functions
    txFamily,    \* "off" | the kind of input drawn: "name" | "yesno" | "location"
                 \* | "gender" | "veteran" | "disability"
    txIn,        \* the argument: [kind, text, items], undefined, a string or an array
    txFallback,  \* normalizeYesNo: the fallback argument
    txOp,        \* "none" | the function that has been applied
    txOut,       \* its result: [b, t, l], a boolean, a text or a list of texts
    txField,     \* the name field the name correction reads and writes
    txPasses,    \* name-correction passes made
    txWrites,    \* fills of the name field made by them
    \* ---- the combobox calls of one adapter pass
    cpVariant,   \* "off" | "ashby" | "ashbyMac"
    cpPage,      \* the questions of the posting, in document order
    cpLocation,  \* profile.location is set
    cpStatus,    \* profile.workAuthorization.currentStatus is set
    cpPc,        \* the next combobox call of the pass
    cpLocationFilled, \* locationFilled of ashby_mac.ts
    cpAuthFilled, \* authFilled of ashby_mac.ts
    cpLog,       \* the calls made, each with what it did
    \* ---- fillInputIfEmpty against the page's own writes
    frVariant,   \* "off" | "ashby" | "ashbyMac"
    frHasValue,  \* the value argument is not the empty string
    frField,     \* what the input holds
    frPc,        \* "off" | "enter" | "read" | "readAgain" | "fill" | "done"
    frWrites,    \* writes the page has made during the call
    frOver,      \* what the input held when fill() was performed, "none" before
    frRet,       \* "none" | "true" | "false"
    \* ---- the control panel and its child process
    ctChild,     \* `child`: 0 for null, else the pid of the spawned process
    ctRunning,   \* `running`
    ctRunKind,   \* `runKind`: "idle" | "collect" | "apply" ("off": the panel is not modelled)
    ctLastCollectCompleted, \* `lastCollectCompleted`
    ctProc,      \* per pid: "none" | "alive" | "exited" (close not yet delivered) | "closed"
    ctKind,      \* per pid: the kind it was started as
    ctTimers,    \* pending force-kill timers, each with the pid its kill request was issued for
    ctForceKills, \* the force-kills made: [for, killed]
    ctKeys,      \* keys written to the child's standard input and not yet read
    ctControls,  \* paused, stopped and inputLocked of the batch child
    ctPanel,     \* the latest control action sent to the child
    ctRequests,  \* control requests made so far
    ctStart,     \* the latest start request: [made, hadChild, ok, spawned]
    \* ---- unknownJobs.js
    ujFile,      \* unknownJobs.js: its entries, in file order
    ujRun,       \* the batch run under way: "none" | "mac" | "windows" ("off": not modelled)
    ujMemory,    \* `unknownLinks` of the run under way
    ujSaved,     \* the links runs have saved and nobody has removed since
    ujOps,       \* operations made so far
    ujLast       \* the latest operation: [op, before, memory, payload]

ujVars == <<ujFile, ujRun, ujMemory, ujSaved, ujOps, ujLast>>

ctVars == <<ctChild, ctRunning, ctRunKind, ctLastCollectCompleted, ctProc, ctKind, ctTimers, ctForceKills, ctKeys, ctControls, ctPanel, ctRequests, ctStart>>

frVars == <<frVariant, frHasValue, frField, frPc, frWrites, frOver, frRet>>

cpVars == <<cpVariant, cpPage, cpLocation, cpStatus, cpPc, cpLocationFilled, cpAuthFilled, cpLog>>

txVars == <<txFamily, txIn, txFallback, txOp, txOut, txField, txPasses, txWrites>>

fiVars == <<fiVariant, fiValue, fiField, fiLog>>

ofVars == <<ofVariant, ofPage, ofPc, ofTried, ofAnswered>>

baVars == <<baVariant, baJobs, baPc, baUrl, baPlatform, baAdapter, baStep, baPaused,
            baStopped, baInputLocked, baStopAt, baBrokeAt>>

adVars == <<adVariant, adFullName, adNeedsRoute, adAutofilled, adToast, adStart, adField,
            adExisting, adPc, adStatus, adLog, adUploaded, adSelected, adRet,
            adFaults>>

ynVars == <<ynVariant, ynKind, ynScope, ynSel, ynScroll, ynRegistry, ynCalls,
            ynLast, ynAnswered>>

cbVars == <<cbVariant, cbPc, cbHasValue, cbOptions, cbText, cbSelected,
            cbOptionsVisible, cbExactSeen, cbTyped, cbTiers, cbRet>>

qbVars == <<qbPc, qbKind, qbAnchor, qbCounts, qbRaise, qbResult>>

(***************************************************************************)
(* Text helpers                                                            *)
(***************************************************************************)
UPPER == <<"A","B","C","D","E","F","G","H","I","J","K","L","M",
           "N","O","P","Q","R","S","T","U","V","W","X","Y","Z">>
LOWER == <<"a","b","c","d","e","f","g","h","i","j","k","l","m",
           "n","o","p","q","r","s","t","u","v","w","x","y","z">>
DIGITS == {"0","1","2","3","4","5","6","7","8","9"}

Range(s) == {s[i] : i \in DOMAIN s}
IsUpper(c) == c \in Range(UPPER)
IsLower(c) == c \in Range(LOWER)
\* a letter outside A-Z and a-z: E with an acute accent, capital and small
E_Acute == "U+00C9"
e_Acute == "U+00E9"
IsLetter(c) == IsUpper(c) \/ IsLower(c) \/ c \in {E_Acute, e_Acute}
IsLowerLetter(c) == IsLower(c) \/ c = e_Acute
\* String.prototype.toLowerCase and toUpperCase, one character at a time
ToLower(c) ==
    IF IsUpper(c) THEN LOWER[CHOOSE i \in DOMAIN UPPER : UPPER[i] = c]
    ELSE IF c = E_Acute THEN e_Acute
    ELSE c
ToUpper(c) ==
    IF IsLower(c) THEN UPPER[CHOOSE i \in DOMAIN LOWER : LOWER[i] = c]
    ELSE IF c = e_Acute THEN E_Acute
    ELSE c
LowerStr(s) == [i \in DOMAIN s |-> ToLower(s[i])]

\* String.prototype.trim over the modelled alphabet (the only whitespace is " ")
RECURSIVE TrimLeft(_)
TrimLeft(s) == IF s # <<>> /\ Head(s) = " " THEN TrimLeft(Tail(s)) ELSE s
RECURSIVE TrimRight(_)
TrimRight(s) ==
    IF s # <<>> /\ s[Len(s)] = " " THEN TrimRight(SubSeq(s, 1, Len(s) - 1)) ELSE s
Trim(s) == TrimRight(TrimLeft(s))

\* s.split(/\s+/).filter(Boolean): the whitespace-separated tokens of s
RECURSIVE SplitWs(_, _, _)
SplitWs(s, cur, acc) ==
    IF s = <<>> THEN (IF cur = <<>> THEN acc ELSE Append(acc, cur))
    ELSE IF Head(s) = " "
         THEN SplitWs(Tail(s), <<>>, IF cur = <<>> THEN acc ELSE Append(acc, cur))
         ELSE SplitWs(Tail(s), Append(cur, Head(s)), acc)
Words(s) == SplitWs(s, <<>>, <<>>)

RECURSIVE JoinWith(_, _)
JoinWith(parts, sep) ==
    IF parts = <<>> THEN <<>>
    ELSE IF Len(parts) = 1 THEN parts[1]
    ELSE parts[1] \o sep \o JoinWith(Tail(parts), sep)

(***************************************************************************)
(* Question-block resolution                                               *)
(*   getQuestionBlock        src/src/apply/ashby.ts 590-603                *)
(*   getRadioQuestionBlock   src/src/apply/ashby.ts 647-660                *)
(***************************************************************************)
QuestionBlockCeiling == 40
QuestionBlockMaxLevel == 10
RadioBlockCeiling == 60
RadioBlockMaxLevel == 12
CountFailed == 999

MaxAncestors == 13
MaxRaiseLevel == 2
CountValues == {QuestionBlockCeiling, QuestionBlockCeiling + 1, RadioBlockCeiling + 1}

\* A document's ancestor chain (the anchor text sits in at least one div or
\* section): an ancestor holds every input of the one below it
AncestorChains ==
    UNION {{s \in [1..n -> CountValues] : \A i \in 1..n : \A j \in i..n : s[i] <= s[j]}
           : n \in 1..MaxAncestors}

\* block.locator("input").count().catch(() => 999): a locator that matches
\* no element counts 0 inputs and does not raise
InputCount(counts, level, raiseAt) ==
    IF level = raiseAt THEN CountFailed
    ELSE IF level <= Len(counts) THEN counts[level]
    ELSE 0

RECURSIVE ClimbAncestors(_, _, _, _, _)
ClimbAncestors(level, maxLevel, ceiling, counts, raiseAt) ==
    IF level > maxLevel THEN 0
    ELSE IF InputCount(counts, level, raiseAt) <= ceiling THEN level
    ELSE ClimbAncestors(level + 1, maxLevel, ceiling, counts, raiseAt)

getQuestionBlock(anchor, counts, raiseAt) ==
    IF anchor # "visible" THEN 0
    ELSE ClimbAncestors(1, QuestionBlockMaxLevel, QuestionBlockCeiling, counts, raiseAt)

getRadioQuestionBlock(anchor, counts, raiseAt) ==
    IF anchor # "visible" THEN 0
    ELSE ClimbAncestors(1, RadioBlockMaxLevel, RadioBlockCeiling, counts, raiseAt)

\* the sub-models this one leaves alone
QbOthers == UNCHANGED <<cbVars, ynVars, adVars, baVars, ofVars, fiVars, txVars, cpVars, frVars, ctVars, ujVars>>

QbInit ==
    /\ qbPc = "ready"
    /\ qbKind \in {"question", "radio"}
    /\ qbAnchor \in {"visible", "hidden", "raise"}
    /\ qbCounts \in AncestorChains
    /\ qbRaise = 0
    /\ qbResult = 0

QbIdle ==
    /\ qbPc = "off"
    /\ qbKind = "question"
    /\ qbAnchor = "hidden"
    /\ qbCounts = <<>>
    /\ qbRaise = 0
    /\ qbResult = 0

ResolveQuestionBlock ==
    /\ QbOthers
    /\ qbPc = "ready"
    /\ qbKind = "question"
    /\ \E raiseAt \in 0..MaxRaiseLevel :
        /\ qbRaise' = raiseAt
        /\ qbResult' = getQuestionBlock(qbAnchor, qbCounts, raiseAt)
    /\ qbPc' = "done"
    /\ UNCHANGED <<qbKind, qbAnchor, qbCounts>>

ResolveRadioQuestionBlock ==
    /\ QbOthers
    /\ qbPc = "ready"
    /\ qbKind = "radio"
    /\ \E raiseAt \in 0..MaxRaiseLevel :
        /\ qbRaise' = raiseAt
        /\ qbResult' = getRadioQuestionBlock(qbAnchor, qbCounts, raiseAt)
    /\ qbPc' = "done"
    /\ UNCHANGED <<qbKind, qbAnchor, qbCounts>>

QbNext == ResolveQuestionBlock \/ ResolveRadioQuestionBlock

\* ---- what the block-resolution claim speaks of
QbCeiling == IF qbKind = "question" THEN QuestionBlockCeiling ELSE RadioBlockCeiling
QbMaxLevel == IF qbKind = "question" THEN QuestionBlockMaxLevel ELSE RadioBlockMaxLevel
QbExists(level) == level \in 1..Len(qbCounts)
QbQualifies(level) ==
    QbExists(level) /\ level <= QbMaxLevel /\ qbCounts[level] <= QbCeiling
QbFirstQualifying ==
    IF \E l \in 1..QbMaxLevel : QbQualifies(l)
    THEN CHOOSE l \in 1..QbMaxLevel :
            QbQualifies(l) /\ \A k \in 1..(l - 1) : ~QbQualifies(k)
    ELSE 0

\* C9: question-block resolution returns the first existing ancestor within
\* the ceiling (40 resp. 60 inputs, height 10 resp. 12), null when the anchor
\* is not visible or no existing ancestor qualifies; it never returns a
\* container over the ceiling and never a handle to an ancestor level that
\* does not exist.
C9_BlockIsFirstExistingWithinCeiling ==
    qbPc = "done" =>
        /\ qbResult # 0 => (QbExists(qbResult) /\ qbCounts[qbResult] <= QbCeiling)
        /\ qbRaise = 0 =>
            qbResult = (IF qbAnchor = "visible" THEN QbFirstQualifying ELSE 0)

(***************************************************************************)
(* fillComboboxForQuestion                                                 *)
(*   src/src/apply/ashby.ts 705-749, src/src/apply/ashby_mac.ts 364-432    *)
(* One action per awaited page operation.  Every page operation can fail:  *)
(* isVisible gives false, a wait times out, a click, fill, type or press   *)
(* raises.  The whole body sits in one try whose catch returns false.      *)
(***************************************************************************)
MaxOptions == 3

OptionLists == UNION {[1..n -> BOOLEAN] : n \in 0..MaxOptions}

\* the sub-models this one leaves alone
CbOthers == UNCHANGED <<qbVars, ynVars, adVars, baVars, ofVars, fiVars, txVars, cpVars, frVars, ctVars, ujVars>>

CbInit ==
    /\ cbVariant \in {"ashby", "mac"}
    /\ cbPc = "enter"
    /\ cbHasValue \in BOOLEAN
    /\ cbOptions \in OptionLists
    /\ cbText \in {"empty", "prior"}
    /\ cbSelected = 0
    /\ cbOptionsVisible = FALSE
    /\ cbExactSeen = "unchecked"
    /\ cbTyped = 0
    /\ cbTiers = <<>>
    /\ cbRet = "none"

CbIdle ==
    /\ cbVariant = "ashby"
    /\ cbPc = "off"
    /\ cbHasValue = FALSE
    /\ cbOptions = <<>>
    /\ cbText = "empty"
    /\ cbSelected = 0
    /\ cbOptionsVisible = FALSE
    /\ cbExactSeen = "unchecked"
    /\ cbTyped = 0
    /\ cbTiers = <<>>
    /\ cbRet = "none"

CbReturn(r) == cbPc' = "done" /\ cbRet' = r

\* the first rendered option whose text contains the value
FirstMatching(options) ==
    CHOOSE k \in DOMAIN options : options[k] /\ \A j \in 1..(k - 1) : ~options[j]

\* if (!value) return false; input = getComboboxInputForQuestion(...);
\* if (!input) return false; if (!(await input.isVisible(...))) return false
CbEnter ==
    /\ CbOthers
    /\ cbPc = "enter"
    /\ \E found \in BOOLEAN :
        IF cbHasValue /\ found
        THEN cbPc' = "click" /\ cbRet' = cbRet
        ELSE CbReturn("false")
    /\ UNCHANGED <<cbVariant, cbHasValue, cbOptions, cbText, cbSelected,
                   cbOptionsVisible, cbExactSeen, cbTyped, cbTiers>>

\* await input.scrollIntoViewIfNeeded().catch(() => {}); await input.click()
CbClick ==
    /\ CbOthers
    /\ cbPc = "click"
    /\ \E ok \in BOOLEAN :
        IF ok THEN cbPc' = "clear" /\ cbRet' = cbRet ELSE CbReturn("false")
    /\ UNCHANGED <<cbVariant, cbHasValue, cbOptions, cbText, cbSelected,
                   cbOptionsVisible, cbExactSeen, cbTyped, cbTiers>>

\* await input.fill("")
CbClear ==
    /\ CbOthers
    /\ cbPc = "clear"
    /\ \E ok \in BOOLEAN :
        IF ok
        THEN cbPc' = "type" /\ cbRet' = cbRet /\ cbText' = "empty"
        ELSE CbReturn("false") /\ cbText' = cbText
    /\ UNCHANGED <<cbVariant, cbHasValue, cbOptions, cbSelected,
                   cbOptionsVisible, cbExactSeen, cbTyped, cbTiers>>

\* await input.type(value, { delay }): a raise may come after some keys went in
CbType ==
    /\ CbOthers
    /\ cbPc = "type"
    /\ cbTyped' = cbTyped + 1
    /\ \E ok \in BOOLEAN :
        IF ok
        THEN cbPc' = "wait" /\ cbRet' = cbRet /\ cbText' = "typed"
        ELSE CbReturn("false") /\ cbText' \in {"empty", "partial"}
    /\ UNCHANGED <<cbVariant, cbHasValue, cbOptions, cbSelected,
                   cbOptionsVisible, cbExactSeen, cbTiers>>

\* try { await options.first().waitFor({ state: "visible" }); optionsVisible = true }
\* catch { optionsVisible = false }
CbWaitOptions ==
    /\ CbOthers
    /\ cbPc = "wait"
    /\ \E seen \in BOOLEAN :
        /\ seen => cbOptions # <<>>
        /\ cbOptionsVisible' = seen
    /\ cbPc' = "exact"
    /\ UNCHANGED <<cbVariant, cbHasValue, cbOptions, cbText, cbSelected,
                   cbExactSeen, cbTyped, cbTiers, cbRet>>

\* tier 2 follows when the exact tier clicked nothing
CbAfterExactMiss == "first"

\* CbExactOption with the return after the click left out: the call goes on
\* to the next tier although the exact tier has selected
CbExactOption_NoReturn ==
    /\ CbOthers
    /\ cbPc = "exact"
    /\ \E seen \in BOOLEAN, ok \in BOOLEAN :
        /\ seen => \E k \in DOMAIN cbOptions : cbOptions[k]
        /\ cbExactSeen' = (IF seen THEN "yes" ELSE "no")
        /\ IF seen
           THEN /\ cbTiers' = Append(cbTiers, "exact")
                /\ IF ok
                   THEN /\ cbSelected' = FirstMatching(cbOptions)
                        /\ cbText' = "option"
                        /\ cbPc' = "first"
                        /\ cbRet' = cbRet
                   ELSE /\ UNCHANGED <<cbSelected, cbText>>
                        /\ CbReturn("false")
           ELSE /\ ~ok
                /\ cbPc' = CbAfterExactMiss
                /\ UNCHANGED <<cbTiers, cbSelected, cbText, cbRet>>
    /\ UNCHANGED <<cbVariant, cbHasValue, cbOptions, cbOptionsVisible, cbTyped>>

\* const exact = options.filter({ hasText: value }).first();
\* if (await exact.isVisible(...).catch(() => false)) { await exact.click(); return true }
CbExactOption ==
    /\ CbOthers
    /\ cbPc = "exact"
    /\ \E seen \in BOOLEAN, ok \in BOOLEAN :
        /\ seen => \E k \in DOMAIN cbOptions : cbOptions[k]
        /\ cbExactSeen' = (IF seen THEN "yes" ELSE "no")
        /\ IF seen
           THEN /\ cbTiers' = Append(cbTiers, "exact")
                /\ IF ok
                   THEN /\ cbSelected' = FirstMatching(cbOptions)
                        /\ cbText' = "option"
                        /\ CbReturn("true")
                   ELSE /\ UNCHANGED <<cbSelected, cbText>>
                        /\ CbReturn("false")
           ELSE /\ ~ok
                /\ cbPc' = CbAfterExactMiss
                /\ UNCHANGED <<cbTiers, cbSelected, cbText, cbRet>>
    /\ UNCHANGED <<cbVariant, cbHasValue, cbOptions, cbOptionsVisible, cbTyped>>

\* if (optionsVisible) { const first = options.first();
\*   if (await first.isVisible(...).catch(() => false)) { await first.click(); return true } }
CbFirstOption ==
    /\ CbOthers
    /\ cbPc = "first"
    /\ \E seen \in BOOLEAN, ok \in BOOLEAN :
        /\ seen => (cbOptionsVisible /\ cbOptions # <<>>)
        /\ IF seen
           THEN /\ cbTiers' = Append(cbTiers, "first")
                /\ IF ok
                   THEN /\ cbSelected' = 1
                        /\ cbText' = "option"
                        /\ CbReturn("true")
                   ELSE /\ UNCHANGED <<cbSelected, cbText>>
                        /\ CbReturn("false")
           ELSE /\ ~ok
                /\ cbPc' = "keys"
                /\ UNCHANGED <<cbTiers, cbSelected, cbText, cbRet>>
    /\ UNCHANGED <<cbVariant, cbHasValue, cbOptions, cbOptionsVisible,
                   cbExactSeen, cbTyped>>

\* await input.press("ArrowDown"); await input.press("Enter"); return true
\* The keys accept the first suggestion when the page shows one; with no
\* suggestion they select nothing.
CbKeyboard ==
    /\ CbOthers
    /\ cbPc = "keys"
    /\ cbTiers' = Append(cbTiers, "keys")
    /\ \E ok \in BOOLEAN, accepted \in BOOLEAN :
        /\ accepted => (ok /\ cbOptions # <<>>)
        /\ IF accepted
           THEN cbSelected' = 1 /\ cbText' = "option"
           ELSE UNCHANGED <<cbSelected, cbText>>
        /\ CbReturn(IF ok THEN "true" ELSE "false")
    /\ UNCHANGED <<cbVariant, cbHasValue, cbOptions, cbOptionsVisible,
                   cbExactSeen, cbTyped>>

fillComboboxForQuestion ==
    \/ CbEnter
    \/ CbClick
    \/ CbClear
    \/ CbType
    \/ CbWaitOptions
    \/ CbExactOption
    \/ CbFirstOption
    \/ CbKeyboard

(***************************************************************************)
(* answerYesNo and selectRadioOption                                       *)
(*   ashby.ts 162-176 (first variant), 662-703 (second variant),           *)
(*   ashby_mac.ts 191-354 (mac variant, with answeredQuestionBlocks)       *)
(* A call is one action.  What the page does during the call is the input  *)
(* env: at most one thing goes wrong per call.                             *)
(***************************************************************************)
NBlocks == 2
MaxCalls == 2

Blocks == 1..NBlocks
Answers == {"Yes", "No"}
SelStates == {"none", "Yes", "No"}
YnEnvs == {"ok",            \* every page operation succeeds
           "anchorHidden",  \* q.isVisible() gives false or raises
           "idFails",       \* block.evaluate(...) raises: blockId is null
           "optionHidden",  \* the button or option label is not visible
           "readFails",     \* the evaluate reading the selected style raises
           "clickRaises",   \* click() raises
           "notRegistered", \* the click lands but the page keeps its state
           "togglesOff",    \* a click on the selected toggle button deselects it
           "strayText",     \* other text in the block contains the answer text
           "scrolls"}       \* the control is out of view: scrolling it in moves the page

NoCall == [made |-> FALSE, b |-> 0, a |-> "Yes", env |-> "ok", was |-> "none",
           clicks |-> <<>>, ret |-> FALSE, freshClicks |-> <<>>, freshRet |-> FALSE,
           answered |-> FALSE, recorded |-> FALSE]

YnOther(a) == IF a = "Yes" THEN "No" ELSE "Yes"

\* what a landed click on the control labelled a does to the page
ClickAnswer(sel, kind, b, a, env) ==
    IF env = "notRegistered" THEN sel
    ELSE IF kind[b] = "toggle" /\ sel[b] = a /\ env = "togglesOff"
         THEN [sel EXCEPT ![b] = "none"]
         ELSE [sel EXCEPT ![b] = a]

\* scrollIntoViewIfNeeded
ScrollIntoView(scroll, env) == IF env = "scrolls" THEN 1 - scroll ELSE scroll

YnOutcome(clicks, ret, sel, reg, scroll) ==
    [clicks |-> clicks, ret |-> ret, sel |-> sel, reg |-> reg, scroll |-> scroll]

\* selectRadioOption: the exact-text tier, then the contains tier, each in its
\* own try.  In a toggle block whose buttons lie in the radio block, the text
\* "Yes"/"No" that the exact tier finds is the toggle button itself.
selectRadioOption(sel, kind, scope, reg, scroll, b, a, env) ==
    IF b = 0 \/ env = "anchorHidden"
    THEN YnOutcome(<<>>, FALSE, sel, reg, scroll)
    ELSE IF (kind[b] = "radio" \/ scope[b]) /\ env # "optionHidden"
    THEN IF env = "clickRaises"
         THEN YnOutcome(<<a, a>>, FALSE, sel, reg, ScrollIntoView(scroll, env))
         ELSE YnOutcome(<<a>>, TRUE, ClickAnswer(sel, kind, b, a, env), reg,
                        ScrollIntoView(scroll, env))
    ELSE IF env = "strayText"
    THEN YnOutcome(<<"text">>, TRUE, sel, reg, ScrollIntoView(scroll, env))
    ELSE YnOutcome(<<>>, FALSE, sel, reg, scroll)

\* getYesNoQuestionBlock finds a block: the anchor is visible and an ancestor
\* holds a Yes and a No button
YesNoBlockFound(kind, b, env) == b # 0 /\ env # "anchorHidden" /\ kind[b] = "toggle"

\* the click of ashby.ts 166-175 and 668-677: no look at the current state
ClickAnswerButton(sel, kind, reg, scroll, b, a, env) ==
    IF env = "optionHidden" THEN YnOutcome(<<>>, FALSE, sel, reg, scroll)
    ELSE IF env = "clickRaises"
    THEN YnOutcome(<<a>>, FALSE, sel, reg, ScrollIntoView(scroll, env))
    ELSE YnOutcome(<<a>>, TRUE, ClickAnswer(sel, kind, b, a, env), reg,
                   ScrollIntoView(scroll, env))

answerYesNo_ashby1(sel, kind, scope, reg, scroll, b, a, env) ==
    IF ~YesNoBlockFound(kind, b, env)
    THEN YnOutcome(<<>>, FALSE, sel, reg, scroll)
    ELSE ClickAnswerButton(sel, kind, reg, scroll, b, a, env)

answerYesNo_ashby2(sel, kind, scope, reg, scroll, b, a, env) ==
    IF ~YesNoBlockFound(kind, b, env)
    THEN selectRadioOption(sel, kind, scope, reg, scroll, b, a, env)
    ELSE ClickAnswerButton(sel, kind, reg, scroll, b, a, env)

\* ashby_mac.ts 202-206: text and viewport position of the block
BlockId(b, scroll) == <<b, scroll>>

\* ashby_mac.ts 208-215: the block is entered in answeredQuestionBlocks when
\* it is resolved
RegistryAfterResolve(reg, b, scroll, env) ==
    IF env = "idFails" THEN reg ELSE reg \cup {BlockId(b, scroll)}

answerYesNo_mac(sel, kind, scope, reg, scroll, b, a, env) ==
    LET found == YesNoBlockFound(kind, b, env)
        known == found /\ env # "idFails" /\ BlockId(b, scroll) \in reg
    IN  IF ~found \/ known
        THEN selectRadioOption(sel, kind, scope, reg, scroll, b, a, env)
        ELSE
        LET reg1 == RegistryAfterResolve(reg, b, scroll, env)
            scroll1 == ScrollIntoView(scroll, env)
            btnSelected == env # "readFails" /\ sel[b] = a
            otherSelected == env # "readFails" /\ sel[b] = YnOther(a)
        IN  IF env = "optionHidden" THEN YnOutcome(<<>>, FALSE, sel, reg1, scroll)
            ELSE IF btnSelected /\ ~otherSelected
            THEN YnOutcome(<<>>, TRUE, sel, reg1, scroll1)
            ELSE IF env = "clickRaises"
            THEN YnOutcome(<<a>>, FALSE, sel, reg1, scroll1)
            ELSE YnOutcome(<<a>>, TRUE, ClickAnswer(sel, kind, b, a, env), reg1, scroll1)

answerYesNo(variant, sel, kind, scope, reg, scroll, b, a, env) ==
    IF variant = "ashby1"
    THEN answerYesNo_ashby1(sel, kind, scope, reg, scroll, b, a, env)
    ELSE IF variant = "ashby2"
    THEN answerYesNo_ashby2(sel, kind, scope, reg, scroll, b, a, env)
    ELSE answerYesNo_mac(sel, kind, scope, reg, scroll, b, a, env)

\* the sub-models this one leaves alone
YnOthers == UNCHANGED <<qbVars, cbVars, adVars, baVars, ofVars, fiVars, txVars, cpVars, frVars, ctVars, ujVars>>

YnInit ==
    /\ ynVariant \in {"ashby1", "ashby2", "mac"}
    /\ ynKind \in [Blocks -> {"toggle", "radio"}]
    /\ ynScope \in [Blocks -> BOOLEAN]
    /\ \A b \in Blocks : ynKind[b] = "radio" => ynScope[b]
    /\ ynSel \in [Blocks -> SelStates]
    /\ ynScroll = 0
    /\ ynRegistry = {}
    /\ ynCalls = 0
    /\ ynLast = NoCall
    /\ ynAnswered = {}

YnIdle ==
    /\ ynVariant = "ashby1"
    /\ ynKind = [b \in Blocks |-> "toggle"]
    /\ ynScope = [b \in Blocks |-> TRUE]
    /\ ynSel = [b \in Blocks |-> "none"]
    /\ ynScroll = 0
    /\ ynRegistry = {}
    /\ ynCalls = 0
    /\ ynLast = NoCall
    /\ ynAnswered = {}

\* one answerYesNo call: the question text resolves to block b (0: the text
\* is not on the page)
AnswerYesNoCall ==
    /\ YnOthers
    /\ ynCalls < MaxCalls
    /\ \E b \in 0..NBlocks, a \in Answers, env \in YnEnvs :
        LET out == answerYesNo(ynVariant, ynSel, ynKind, ynScope, ynRegistry,
                               ynScroll, b, a, env)
            \* the same call on the same page in a process that has made no
            \* call before
            fresh == answerYesNo(ynVariant, ynSel, ynKind, ynScope, {},
                                 ynScroll, b, a, env)
        IN  /\ ynSel' = out.sel
            /\ ynRegistry' = out.reg
            /\ ynScroll' = out.scroll
            /\ ynLast' = [made |-> TRUE, b |-> b, a |-> a, env |-> env,
                          was |-> IF b = 0 THEN "none" ELSE ynSel[b],
                          clicks |-> out.clicks, ret |-> out.ret,
                          freshClicks |-> fresh.clicks, freshRet |-> fresh.ret,
                          answered |-> b \in ynAnswered,
                          recorded |-> out.reg # ynRegistry]
            /\ ynAnswered' = IF b # 0 /\ out.clicks # <<>> /\ out.ret
                             THEN ynAnswered \cup {b} ELSE ynAnswered
    /\ ynCalls' = ynCalls + 1
    /\ UNCHANGED <<ynVariant, ynKind, ynScope>>

\* the batch goes on to the next posting: a freshly loaded page of the same
\* form, in the same process
NextPosting ==
    /\ YnOthers
    /\ ynCalls > 0
    /\ ynCalls < MaxCalls
    /\ ynSel' = [b \in Blocks |-> "none"]
    /\ ynScroll' = 0
    /\ ynAnswered' = {}
    /\ UNCHANGED <<ynVariant, ynKind, ynScope, ynRegistry, ynCalls, ynLast>>

YnNext == AnswerYesNoCall \/ NextPosting

\* C6: fillComboboxForQuestion types the value once and then applies a strict
\* fallback chain: the first-option tier runs only when no option containing
\* the value was seen, the keyboard tier only when no option was clicked, and
\* no tier runs after another has run, so at most one tier selects per call.
C6_StrictFallbackChain ==
    /\ cbTyped <= 1
    /\ Len(cbTiers) <= 1
    /\ cbTiers # <<>> => (cbTyped = 1 /\ cbExactSeen # "unchecked")
    /\ "exact" \in Range(cbTiers) => cbExactSeen = "yes"
    /\ "first" \in Range(cbTiers) => (cbExactSeen = "no" /\ cbOptionsVisible)
    /\ "keys" \in Range(cbTiers) => cbExactSeen = "no"
    /\ cbSelected # 0 => Len(cbTiers) = 1

\* C6 witness: no matching option was seen, the first rendered option was
\* clicked and the call returned true
C6_Witness_FirstOptionTier ==
    /\ cbPc = "done"
    /\ cbRet = "true"
    /\ cbTiers = <<"first">>
    /\ cbSelected = 1
    /\ cbTyped = 1

\* C7: once fillComboboxForQuestion has typed the value, on return the input
\* does not hold typed text with no option confirmed, and when options are
\* rendered and none contains the value the first rendered option is selected.
\* (The call has typed the whole value exactly when it went on to look for
\* options, that is when cbExactSeen is no longer "unchecked".)
C7_NeverTypedButUnconfirmed ==
    (cbPc = "done" /\ cbTyped > 0 /\ cbExactSeen # "unchecked") =>
        /\ ~(cbText = "typed" /\ cbSelected = 0)
        /\ (cbOptions # <<>> /\ \A k \in DOMAIN cbOptions : ~cbOptions[k])
              => cbSelected = 1


\* C5: a resolver returns true only if, during that call, it performed an
\* interaction on the page and the state read back afterwards matches the
\* requested one; answerYesNo does not return true when the requested answer
\* is not the selected one after its click.
C5_TrueOnlyAfterMatchingInteraction ==
    (ynLast.made /\ ynLast.ret /\ ynKind[ynLast.b] = "toggle") =>
        /\ ynLast.clicks # <<>>
        /\ ynSel[ynLast.b] = ynLast.a

\* C8: answerYesNo is idempotent: when the block already shows the requested
\* answer selected, a call issues no click (so a second call with the same
\* question and answer on an unchanged page issues none either).
C8_NoClickWhenAlreadySelected ==
    (/\ ynLast.made
     /\ ynLast.env = "ok"
     /\ ynLast.b # 0
     /\ ynKind[ynLast.b] = "toggle"
     /\ ynLast.was = ynLast.a) => ynLast.clicks = <<>>

\* C22: in the ashby_mac adapter a call whose question text resolves to a
\* block that an earlier call of the posting answered clicks nothing, on the
\* toggle path and on the radio fallback alike, and a call enters a block in
\* answeredQuestionBlocks only if it clicked in it.
C22_AnsweredBlockNotClickedAgain ==
    (ynVariant = "mac" /\ ynLast.made) =>
        /\ ynLast.answered => ynLast.clicks = <<>>
        /\ ynLast.recorded => ynLast.clicks # <<>>

\* C10: resolvers hold no state across calls: what a call clicks and returns
\* is what the same call, on the same page and with the same page responses,
\* clicks and returns in a process that has handled no question before.
C10_NoStateAcrossCalls ==
    ynLast.made =>
        /\ ynLast.clicks = ynLast.freshClicks
        /\ ynLast.ret = ynLast.freshRet

(***************************************************************************)
(* Name and phone helpers                                                  *)
(*   looksAllCapsName  ashby.ts 531-543    toProperNameCase ashby.ts 552-585*)
(*   getFirstLastName  ashby.ts 517-525    normalizeDigits  ashby.ts 1119  *)
(***************************************************************************)
Str_II == <<"I","I">>
Str_III == <<"I","I","I">>
Str_IV == <<"I","V">>
Str_V == <<"V">>
Str_JR == <<"J","R">>
Str_SR == <<"S","R">>
Suffixes == {Str_II, Str_III, Str_IV, Str_V}
LowercaseParticles ==
    {<<"D","E">>, <<"D","A">>, <<"D","O","S">>, <<"D","E","L">>, <<"V","A","N">>,
     <<"V","O","N">>, <<"D","I">>, <<"L","A">>, <<"L","E">>}
\* the right single quotation mark of /([-'\u2019])/
CurlyApostrophe == "U+2019"
NameSeparators == {"-", "'", CurlyApostrophe}

shouldFill(existing) == Trim(existing) = <<>>

looksAllCapsName(s) ==
    LET t == Trim(s)
    IN  /\ t # <<>>
        /\ Len(Words(t)) >= 2
        /\ ~(\E i \in DOMAIN t : IsLower(t[i]))
        /\ \E i \in DOMAIN t : IsUpper(t[i])
        /\ \A i \in DOMAIN t : IsUpper(t[i]) \/ t[i] \in {" ", ".", "'", "-"}

\* raw.split(/([-'])/) with every segment given an upper-case first character
\* and a lower-case rest, the separators kept
RECURSIVE CaseSegments(_, _)
CaseSegments(raw, atStart) ==
    IF raw = <<>> THEN <<>>
    ELSE IF Head(raw) \in NameSeparators
         THEN <<Head(raw)>> \o CaseSegments(Tail(raw), TRUE)
         ELSE <<IF atStart THEN ToUpper(Head(raw)) ELSE ToLower(Head(raw))>>
              \o CaseSegments(Tail(raw), FALSE)

\* a variant of CaseToken that returns the token as it is
CaseToken_Verbatim(raw, idx) == raw

\* a variant of CaseToken that lower-cases a particle wherever it stands
CaseToken_ParticleAnywhere(raw, idx) ==
    IF raw \in Suffixes THEN raw
    ELSE IF raw = Str_JR \/ raw = Str_SR
         THEN <<raw[1]>> \o LowerStr(Tail(raw)) \o <<".">>
    ELSE IF raw \in LowercaseParticles THEN LowerStr(raw)
    ELSE CaseSegments(raw, TRUE)

CaseToken(raw, idx) ==
    IF raw \in Suffixes THEN raw
    ELSE IF raw = Str_JR \/ raw = Str_SR
         THEN <<raw[1]>> \o LowerStr(Tail(raw)) \o <<".">>
    ELSE IF idx # 1 /\ raw \in LowercaseParticles THEN LowerStr(raw)
    ELSE CaseSegments(raw, TRUE)

toProperNameCase(allCaps) ==
    LET parts == Words(Trim(allCaps))
    IN  JoinWith([i \in DOMAIN parts |-> CaseToken(parts[i], i)], <<" ">>)

\* the profile carries no firstName/lastName: the names come from fullName
getFirstLastName(fullName) ==
    LET parts == Words(Trim(fullName))
    IN  IF parts = <<>> THEN [first |-> <<>>, last |-> <<>>]
        ELSE IF Len(parts) = 1 THEN [first |-> parts[1], last |-> <<>>]
        ELSE [first |-> parts[1], last |-> JoinWith(Tail(parts), <<" ">>)]

normalizeDigits(input) == SelectSeq(input, LAMBDA c : c \in DIGITS)

\* String.prototype.includes
Includes(s, t) ==
    \E i \in 0..(Len(s) - Len(t)) : SubSeq(s, i + 1, i + Len(t)) = t

\* phone.replace(/(\d{3})(\d{3})(\d{4})/, "($1) $2-$3"): the first run of ten
\* digits is rewritten
formattedPhone(phone) ==
    LET starts == {i \in 1..(Len(phone) - 9) : \A k \in i..(i + 9) : phone[k] \in DIGITS}
    IN  IF starts = {} THEN phone
        ELSE LET i == CHOOSE j \in starts : \A k \in starts : j <= k
             IN  SubSeq(phone, 1, i - 1) \o <<"(">> \o SubSeq(phone, i, i + 2)
                 \o <<")", " ">> \o SubSeq(phone, i + 3, i + 5) \o <<"-">>
                 \o SubSeq(phone, i + 6, i + 9) \o SubSeq(phone, i + 10, Len(phone))

(***************************************************************************)
(* The adapter entry points                                                *)
(*   autofillAshby       ashby.ts 290-419, ashby.ts 778-929,               *)
(*                       ashby_mac.ts 465-735                              *)
(*   autofillGreenhouse  ashby.ts 1508-1592                                *)
(*   autofillLever       ashby_mac.ts 1119-1181                            *)
(* An adapter is the list of its statements; adPc walks the list.  A page  *)
(* operation that fails is an input of the statement that issues it.       *)
(***************************************************************************)
NameCaps == <<"J","A","N","E"," ","D","O","E">>
NameMixed == <<"J","a","n","e"," ","D","o","e">>
NameOther == <<"A","n","n"," ","L","e","e">>
FirstOther == <<"A","n","n">>
LastOther == <<"L","e","e">>
Email == <<"j","@","d",".","i","o">>
Phone == <<"5","5","5","0","1","0","0","1","2","3">>
Linkedin == <<"i","n","/","j","d">>
Github == <<"g","h","/","j","d">>
Portfolio == <<"j","d",".","i","o">>
Location == <<"A","u","s","t","i","n",","," ","T","X">>

MaxFaults == 1

Fields == {"name", "first", "last", "email", "phone",
           "linkedin", "github", "portfolio", "location"}
Variants == {"ashby1", "ashby2", "ashbyMac", "greenhouse", "lever"}

\* the profile value a statement passes to its helper
ProfileValue(key, fullName) ==
    CASE key = "fullName" -> fullName
      [] key = "first" -> getFirstLastName(fullName).first
      [] key = "last" -> getFirstLastName(fullName).last
      [] key = "email" -> Email
      [] key = "phone" -> Phone
      [] key = "formattedPhone" -> formattedPhone(Phone)
      [] key = "linkedin" -> Linkedin
      [] key = "github" -> Github
      [] key = "portfolio" -> Portfolio
      [] key = "location" -> Location
      [] OTHER -> <<>>

\* a statement: the helper it calls, the field the helper's selectors reach,
\* the profile value passed, whether it runs only if the return value tested
\* before it was false, and what becomes of its own return value
St(op, f, v) == [op |-> op, f |-> f, v |-> v, when |-> "always", ret |-> "drop"]
Keep(i) == [i EXCEPT !.ret = "store"]
Hold(i) == [i EXCEPT !.ret = "hold"]
IfNot(i) == [i EXCEPT !.when = "ifNot"]
Times(i, n) == [k \in 1..n |-> i]

\* a run of consecutive calls of resolvers that click: answerYesNo,
\* selectRadioOption, selectByVisibleOptionAnywhere, clickFirstVisible,
\* answerRadioQuestion, selectByLabelDropdownExact, and fillComboboxForQuestion
\* on a combobox that is none of the modelled fields
Resolvers == St("click", "", "")
\* a run of consecutive selectByLabelDropdown, selectCountry, selectState calls
Dropdowns == St("dropdown", "", "")
Guarded == St("guarded", "", "")
Upload == St("upload", "", "")
Return == St("return", "", "")

\* the three link fills, the same in every Ashby variant
fillLinks ==
    <<St("ffv", "linkedin", "linkedin"), St("ffv", "github", "github"),
      St("ffv", "portfolio", "portfolio")>>

\* ashby.ts 290-419
autofillAshby1 ==
    <<St("goto", "", ""), Guarded,
      St("ffv", "name", "fullName"), St("ffv", "email", "email"),
      St("ffv", "phone", "phone")>>
    \o fillLinks
    \o <<Upload, St("combo", "location", "location"),
         Resolvers,                      \* 356-415
         Return>>

\* ashby.ts 778-929
autofillAshby2 ==
    <<St("goto", "", ""), Guarded, Upload,
      St("read", "name", ""), St("read", "first", ""), St("read", "last", ""),
      St("read", "email", ""), St("read", "phone", ""),
      St("nameFix", "name", "fullName"),
      St("ffvIfEmpty", "first", "first"), St("ffvIfEmpty", "last", "last"),
      St("ffvIfEmpty", "email", "email"), St("ffvIfEmpty", "phone", "phone")>>
    \o fillLinks
    \o <<St("combo", "location", "location"),
         Resolvers,                      \* 868-925
         Return>>

\* ashby_mac.ts 465-735
autofillAshbyMac ==
    <<St("goto", "", ""), Guarded,
      St("read", "first", ""), St("read", "last", ""),
      St("ffv", "name", "fullName"),
      St("ffvIfEmpty", "first", "first"), St("ffvIfEmpty", "last", "last"),
      St("ffv", "email", "email"),
      Keep(St("ffv", "phone", "phone")),
      IfNot(St("ffv", "phone", "formattedPhone"))>>
    \o fillLinks
    \o <<Upload,
         Keep(St("combo", "location", "location")),
         IfNot(Hold(St("combo", "location", "location"))),
         IfNot(Hold(St("combo", "location", "location"))),
         IfNot(St("combo", "location", "location")),
         Resolvers,                      \* 610-718
         St("nameRecheck", "name", "fullName"), Return>>

\* ashby.ts 1508-1592
autofillGreenhouse ==
    <<St("toast", "", ""),
      St("fiie2", "first", "first"), St("fiie2", "last", "last"),
      St("fiie2", "email", "email"), St("phoneFix", "phone", "phone"),
      St("fiie2", "first", "first"), St("fiie2", "last", "last"),
      St("fiie2", "email", "email"), St("phoneFix", "phone", "phone"),
      St("fblt", "first", "first"), St("fblt", "last", "last"),
      St("fblt", "email", "email"), St("phoneFix", "phone", "phone"),
      St("toast", "", "")>>
    \o <<Dropdowns>>                     \* 1536-1543
    \o Times(St("fblt", "location", "location"), 3)
    \o Times(St("fblt", "linkedin", "linkedin"), 2)
    \o Times(St("fblt", "portfolio", "portfolio"), 2)
    \o <<St("fblt", "github", "github"), Keep(Upload), IfNot(Upload)>>
    \o <<Resolvers,                      \* 1571-1581
         Dropdowns,                      \* 1582-1586
         St("phoneFix", "phone", "phone"), Return>>

\* ashby_mac.ts 1119-1181
autofillLever ==
    <<St("goto", "", ""),
      St("fiie", "name", "fullName"), St("fiie", "email", "email"),
      St("fiie", "phone", "phone"),
      St("fblt", "name", "fullName"), St("fblt", "first", "first"),
      St("fblt", "last", "last"), St("fblt", "email", "email"),
      St("fblt", "phone", "phone")>>
    \o Times(St("fblt", "location", "location"), 4)
    \o <<St("fiie", "location", "location"),       \* fillLocationHard
         St("locationJs", "location", "location"),
         St("locationType", "location", "location"),
         St("locationJs", "location", "location")>> \* enforceLocationValue
    \o Times(St("fblt", "linkedin", "linkedin"), 2)
    \o Times(St("fblt", "portfolio", "portfolio"), 4)
    \o <<St("fiie", "portfolio", "portfolio"),     \* fillPortfolioHard
         St("fblt", "github", "github")>>
    \o <<Guarded,                        \* the salary fields, 1162-1166
         Resolvers,                      \* 1168-1176
         Upload, Return>>

AdProgram(variant) ==
    CASE variant = "ashby1" -> autofillAshby1
      [] variant = "ashby2" -> autofillAshby2
      [] variant = "ashbyMac" -> autofillAshbyMac
      [] variant = "greenhouse" -> autofillGreenhouse
      [] variant = "lever" -> autofillLever

\* the fields an adapter's statements reach
FieldsOf(variant) ==
    {AdProgram(variant)[k].f : k \in DOMAIN AdProgram(variant)} \ {""}

\* the sub-models this one leaves alone
AdOthers == UNCHANGED <<qbVars, cbVars, ynVars, baVars, ofVars, fiVars, txVars, cpVars, frVars, ctVars, ujVars>>

\* the pages an adapter is started on
ContactStates == {"empty", "filled", "doubled"}
PageOf(variant, name, contact, extras) ==
    LET page ==
        [f \in Fields |->
            CASE f = "name" -> name
              [] f = "first" -> IF contact = "empty" THEN <<>> ELSE FirstOther
              [] f = "last" -> IF contact = "empty" THEN <<>> ELSE LastOther
              [] f = "email" -> IF contact = "empty" THEN <<>> ELSE Email
              [] f = "phone" -> IF contact = "empty" THEN <<>>
                                ELSE IF contact = "filled" THEN Phone
                                ELSE Phone \o Phone
              [] OTHER -> IF extras THEN ProfileValue(f, <<>>) ELSE <<>>]
    IN  [f \in Fields |-> IF f \in FieldsOf(variant) THEN page[f] ELSE <<>>]

NoneRead == [f \in Fields |-> <<>>]

AdInit ==
    /\ adVariant \in Variants
    /\ adFullName \in {NameCaps, NameMixed}
    /\ adNeedsRoute \in BOOLEAN
    /\ adVariant = "greenhouse" => ~adNeedsRoute
    /\ adAutofilled \in BOOLEAN
    /\ adToast \in BOOLEAN
    /\ adToast => adAutofilled
    /\ adAutofilled => adVariant = "greenhouse"
    /\ \E name \in {<<>>, NameCaps, NameOther}, contact \in ContactStates,
          extras \in BOOLEAN :
        /\ adAutofilled => contact # "empty"
        /\ adField = PageOf(adVariant, name, contact, extras)
    /\ adStart = adField
    /\ adExisting = NoneRead
    /\ adPc = 1
    /\ adStatus = "running"
    /\ adLog = {}
    /\ adUploaded = FALSE
    /\ adSelected = FALSE
    /\ adRet = FALSE
    /\ adFaults = 0

AdIdle ==
    /\ adVariant = "ashby1"
    /\ adFullName = NameCaps
    /\ adNeedsRoute = FALSE
    /\ adAutofilled = FALSE
    /\ adToast = FALSE
    /\ adField = NoneRead
    /\ adStart = NoneRead
    /\ adExisting = NoneRead
    /\ adPc = 1
    /\ adStatus = "off"
    /\ adLog = {}
    /\ adUploaded = FALSE
    /\ adSelected = FALSE
    /\ adRet = FALSE
    /\ adFaults = 0

Instr == AdProgram(adVariant)[adPc]

\* the statement at adPc calls one of the helpers ops, and it runs
AdAt(ops) ==
    /\ adStatus = "running"
    /\ Instr.op \in ops
    /\ Instr.when = "always" \/ ~adRet

RetAfter(r) ==
    CASE Instr.ret = "store" -> r
      [] Instr.ret = "hold" -> adRet
      [] OTHER -> FALSE

\* the statement is done, its helper having returned r
Advance(r) ==
    /\ adPc' = adPc + 1
    /\ adRet' = RetAfter(r)
    /\ adStatus' = adStatus

\* an exception leaves the adapter
Throw ==
    /\ adStatus' = "threw"
    /\ UNCHANGED <<adPc, adRet>>

\* loc.fill(value) has succeeded on field f
Write(f, value) ==
    /\ adField' = [adField EXCEPT ![f] = value]
    /\ adLog' = adLog \cup {<<f, adField[f], value>>}

NoWrite == UNCHANGED <<adField, adLog>>

\* a page operation fails (element missing or hidden, timeout, detached
\* node): at most MaxFaults of them in one call
Charge(failed) ==
    IF failed THEN adFaults < MaxFaults /\ adFaults' = adFaults + 1
    ELSE adFaults' = adFaults

\* the helper returns false without a write
NoFill == Advance(FALSE) /\ NoWrite /\ UNCHANGED adFaults

AdFrame == UNCHANGED <<adVariant, adFullName, adAutofilled, adToast, adStart>>

\* a statement guarded by the return value of an earlier one does not run
AdSkip ==
    /\ AdOthers
    /\ adStatus = "running"
    /\ Instr.when = "ifNot"
    /\ adRet
    /\ adPc' = adPc + 1
    /\ adRet' = (IF Instr.ret = "drop" THEN FALSE ELSE adRet)
    /\ AdFrame
    /\ UNCHANGED <<adNeedsRoute, adField, adExisting, adStatus, adLog,
                   adUploaded, adSelected, adFaults>>

\* page.goto(appUrl) when the page is not on the application URL: no try
\* around it
AdGoto ==
    /\ AdOthers
    /\ AdAt({"goto"})
    /\ \E ok \in BOOLEAN :
        /\ Charge(adNeedsRoute /\ ~ok)
        /\ IF ~adNeedsRoute THEN Advance(FALSE) /\ UNCHANGED adNeedsRoute
           ELSE IF ok THEN Advance(FALSE) /\ adNeedsRoute' = FALSE
           ELSE Throw /\ UNCHANGED adNeedsRoute
    /\ AdFrame
    /\ UNCHANGED <<adField, adExisting, adLog, adUploaded, adSelected>>

\* a call that is inside a try and reaches none of the modelled fields
AdGuarded ==
    /\ AdOthers
    /\ AdAt({"guarded"})
    /\ Advance(FALSE)
    /\ AdFrame
    /\ UNCHANGED <<adNeedsRoute, adField, adExisting, adLog, adUploaded, adSelected,
                   adFaults>>

\* uploadResumeIfPossible: inputs.count() outside any try, setInputFiles
\* inside one
uploadResumeIfPossible ==
    /\ AdOthers
    /\ AdAt({"upload"})
    /\ \E env \in {"set", "none", "countFails"} :
        /\ Charge(env # "set")
        /\ CASE env = "countFails" -> Throw /\ UNCHANGED adUploaded
             [] env = "set" -> Advance(TRUE) /\ adUploaded' = TRUE
             [] OTHER -> Advance(FALSE) /\ UNCHANGED adUploaded
    /\ AdFrame
    /\ UNCHANGED <<adNeedsRoute, adField, adExisting, adLog, adSelected>>

\* readFirstVisibleValue: "" when the field is not visible or the read raises
readFirstVisibleValue ==
    /\ AdOthers
    /\ AdAt({"read"})
    /\ \E ok \in BOOLEAN :
        /\ Charge(~ok)
        /\ adExisting' = [adExisting EXCEPT
                            ![Instr.f] = IF ok THEN Trim(adField[Instr.f]) ELSE <<>>]
    /\ Advance(FALSE)
    /\ AdFrame
    /\ UNCHANGED <<adNeedsRoute, adField, adLog, adUploaded, adSelected>>

\* the body of fillFirstVisible(page, selectors of f, value)
FillFirstVisibleWith(f, value) ==
    IF value = <<>> THEN NoFill
    ELSE \E ok \in BOOLEAN :
            /\ Charge(~ok)
            /\ IF ok THEN Advance(TRUE) /\ Write(f, value)
               ELSE Advance(FALSE) /\ NoWrite

fillFirstVisible ==
    /\ AdOthers
    /\ AdAt({"ffv"})
    /\ FillFirstVisibleWith(Instr.f, ProfileValue(Instr.v, adFullName))
    /\ AdFrame
    /\ UNCHANGED <<adNeedsRoute, adExisting, adUploaded, adSelected>>

\* if (shouldFill(existingX)) await fillFirstVisible(...)
fillFirstVisibleIfShould ==
    /\ AdOthers
    /\ AdAt({"ffvIfEmpty"})
    /\ IF shouldFill(adExisting[Instr.f])
       THEN FillFirstVisibleWith(Instr.f, ProfileValue(Instr.v, adFullName))
       ELSE NoFill
    /\ adExisting' = [adExisting EXCEPT ![Instr.f] = <<>>]
    /\ AdFrame
    /\ UNCHANGED <<adNeedsRoute, adUploaded, adSelected>>

\* ashby.ts 829-838: the all-caps correction, else the fill of an empty field
fixAllCapsName ==
    /\ AdOthers
    /\ AdAt({"nameFix"})
    /\ LET existingName == adExisting[Instr.f]
       IN  IF looksAllCapsName(existingName)
           THEN FillFirstVisibleWith(Instr.f, toProperNameCase(existingName))
           ELSE IF shouldFill(existingName)
           THEN FillFirstVisibleWith(Instr.f, adFullName)
           ELSE NoFill
    /\ adExisting' = [adExisting EXCEPT ![Instr.f] = <<>>]
    /\ AdFrame
    /\ UNCHANGED <<adNeedsRoute, adUploaded, adSelected>>

\* ashby_mac.ts 720-731: the name is read again and, if all caps, filled
\* with profile.fullName
recheckName ==
    /\ AdOthers
    /\ AdAt({"nameRecheck"})
    /\ LET existingName == Trim(adField[Instr.f])
       IN  \/ /\ looksAllCapsName(existingName) /\ adFullName # <<>>
              /\ FillFirstVisibleWith(Instr.f, adFullName)
           \/ /\ ~(looksAllCapsName(existingName) /\ adFullName # <<>>)
              /\ NoFill
           \/ /\ adFaults < MaxFaults        \* the read fails and gives ""
              /\ Advance(FALSE) /\ NoWrite /\ adFaults' = adFaults + 1
    /\ AdFrame
    /\ UNCHANGED <<adNeedsRoute, adExisting, adUploaded, adSelected>>

\* fillInputIfEmpty (ashby.ts 1068-1082 reads the value twice, ashby_mac.ts
\* 930-942 once), and fillByLabelText, fillByQuestionText, fillLocationHard
\* and fillPortfolioHard, which read and fill the same way.  A read that
\* raises gives "" (.catch(() => "")).
fillInputIfEmpty ==
    /\ AdOthers
    /\ AdAt({"fiie", "fiie2", "fblt"})
    /\ \E env \in {"ok", "fails", "readFails"} :
        LET value == ProfileValue(Instr.v, adFullName)
            existing == IF env = "readFails" THEN <<>> ELSE adField[Instr.f]
        IN  /\ Charge(env # "ok")
            /\ IF value # <<>> /\ env # "fails" /\ Trim(existing) = <<>>
               THEN Advance(TRUE) /\ Write(Instr.f, value)
               ELSE Advance(FALSE) /\ NoWrite
    /\ AdFrame
    /\ UNCHANGED <<adNeedsRoute, adExisting, adUploaded, adSelected>>

\* fillPhoneIfEmptyOrFix, ashby.ts 1123-1142: the two loc.fill(phone) are
\* outside any try
fillPhoneIfEmptyOrFix ==
    /\ AdOthers
    /\ AdAt({"phoneFix"})
    /\ \E env \in {"ok", "hidden", "readFails", "fillFails"} :
        LET phone == ProfileValue(Instr.v, adFullName)
            targetDigits == normalizeDigits(phone)
            existing == IF env = "readFails" THEN <<>> ELSE adField[Instr.f]
            existingDigits == normalizeDigits(existing)
            fills ==
                IF existingDigits # <<>> /\ targetDigits # <<>>
                   /\ Includes(existingDigits, targetDigits)
                THEN existingDigits = targetDigits \o targetDigits
                ELSE existingDigits = <<>>
        IN  /\ Charge(env # "ok")
            /\ IF phone = <<>> \/ env = "hidden" \/ ~fills
               THEN Advance(FALSE) /\ NoWrite
               ELSE IF env = "fillFails" THEN Throw /\ NoWrite
               ELSE Advance(FALSE) /\ Write(Instr.f, phone)
    /\ AdFrame
    /\ UNCHANGED <<adNeedsRoute, adExisting, adUploaded, adSelected>>

\* if (await myGreenhouseToastVisible(page)) return;   isVisible with a
\* 500 ms timeout and .catch(() => false)
myGreenhouseToastVisible ==
    /\ AdOthers
    /\ AdAt({"toast"})
    /\ \E seen \in BOOLEAN :
        /\ Charge(adToast /\ ~seen)
        /\ IF adToast /\ seen
           THEN adStatus' = "returned" /\ UNCHANGED <<adPc, adRet>>
           ELSE Advance(FALSE)
    /\ AdFrame
    /\ UNCHANGED <<adNeedsRoute, adField, adExisting, adLog, adUploaded, adSelected>>

\* answerYesNo, selectRadioOption, selectByVisibleOptionAnywhere,
\* clickFirstVisible, answerRadioQuestion, selectByLabelDropdownExact: every
\* page operation inside a try; a click lands or the call does nothing
clickResolver ==
    /\ AdOthers
    /\ AdAt({"click"})
    /\ \E acted \in BOOLEAN, r \in BOOLEAN :
        /\ acted => r
        /\ adSelected' = (adSelected \/ acted)
        /\ Advance(r)
    /\ AdFrame
    /\ UNCHANGED <<adNeedsRoute, adField, adExisting, adLog, adUploaded, adFaults>>

\* selectByLabelDropdownInternal (ashby.ts 1277-1345): returns true at once
\* when the dropdown holds a value, else may pick an option
selectByLabelDropdown ==
    /\ AdOthers
    /\ AdAt({"dropdown"})
    /\ \E acted \in BOOLEAN :
        /\ acted => ~adAutofilled
        /\ adSelected' = (adSelected \/ acted)
        /\ Advance(acted \/ adAutofilled)
    /\ AdFrame
    /\ UNCHANGED <<adNeedsRoute, adField, adExisting, adLog, adUploaded, adFaults>>

\* fillComboboxForQuestion as the adapter sees it: the combobox is not
\* reached; input.fill("") succeeds and type raises; the value is typed and no
\* option confirmed; an option is clicked
comboboxResolver ==
    /\ AdOthers
    /\ AdAt({"combo"})
    /\ \E out \in {"none", "cleared", "typed", "selected"}, r \in BOOLEAN :
        LET value == ProfileValue(Instr.v, adFullName)
            text == IF out = "cleared" THEN <<>> ELSE value
        IN  /\ Charge(out # "selected")
            /\ out \in {"none", "cleared"} => ~r
            /\ out = "selected" => r
            /\ IF out = "none" \/ Instr.f = "" THEN NoWrite ELSE Write(Instr.f, text)
            /\ adSelected' = (adSelected \/ out = "selected")
            /\ Advance(r)
    /\ AdFrame
    /\ UNCHANGED <<adNeedsRoute, adExisting, adUploaded>>

\* fillLocationHardJs and enforceLocationValue (ashby_mac.ts 961-988,
\* 1006-1034): in the page, the input's value is set if it is empty
setLocationInPage ==
    /\ AdOthers
    /\ AdAt({"locationJs"})
    /\ \E ok \in BOOLEAN :
        LET value == ProfileValue(Instr.v, adFullName)
        IN  /\ Charge(~ok)
            /\ IF ok /\ value # <<>> /\ Trim(adField[Instr.f]) = <<>>
               THEN Advance(TRUE) /\ Write(Instr.f, value)
               ELSE Advance(FALSE) /\ NoWrite
    /\ AdFrame
    /\ UNCHANGED <<adNeedsRoute, adExisting, adUploaded, adSelected>>

\* fillLocationHardType (ashby_mac.ts 990-1004): click, Control+A (its failure
\* swallowed), type: the value replaces the text, or joins it when nothing
\* was selected
fillLocationHardType ==
    /\ AdOthers
    /\ AdAt({"locationType"})
    /\ \E env \in {"ok", "fails", "noSelectAll"} :
        LET value == ProfileValue(Instr.v, adFullName)
        IN  /\ Charge(env # "ok")
            /\ IF value = <<>> \/ env = "fails" THEN Advance(FALSE) /\ NoWrite
               ELSE IF env = "ok" THEN Advance(TRUE) /\ Write(Instr.f, value)
               ELSE Advance(TRUE) /\ Write(Instr.f, adField[Instr.f] \o value)
    /\ AdFrame
    /\ UNCHANGED <<adNeedsRoute, adExisting, adUploaded, adSelected>>

\* the end of the adapter's body
AdReturn ==
    /\ AdOthers
    /\ AdAt({"return"})
    /\ adStatus' = "returned"
    /\ AdFrame
    /\ UNCHANGED <<adNeedsRoute, adField, adExisting, adPc, adLog, adUploaded,
                   adSelected, adRet, adFaults>>

AdNext ==
    \/ AdSkip
    \/ AdGoto
    \/ AdGuarded
    \/ uploadResumeIfPossible
    \/ readFirstVisibleValue
    \/ fillFirstVisible
    \/ fillFirstVisibleIfShould
    \/ fixAllCapsName
    \/ recheckName
    \/ fillInputIfEmpty
    \/ fillPhoneIfEmptyOrFix
    \/ myGreenhouseToastVisible
    \/ clickResolver
    \/ selectByLabelDropdown
    \/ comboboxResolver
    \/ setLocationInPage
    \/ fillLocationHardType
    \/ AdReturn

\* C1: every adapter entry point returns normally to its caller whatever
\* page operation fails: no failure of a page operation leaves the adapter as
\* an exception.
C1_AdapterAlwaysReturns == adStatus # "threw"

\* C2: during an adapter pass a text field that holds a non-empty value is
\* never written to, except that a name field holding an all-capitals name
\* may be overwritten with its mixed-case form (stated for the passes in which
\* no page operation fails).
C2_NonEmptyFieldNeverWritten ==
    adFaults = 0 =>
        \A w \in adLog :
            \/ Trim(w[2]) = <<>>
            \/ /\ w[1] = "name"
               /\ looksAllCapsName(w[2])
               /\ w[3] = toProperNameCase(w[2])

\* C3: with profile fullName "JANE DOE", a name field autofilled with
\* "JANE DOE" and email and phone fields holding the correct values, an Ashby
\* adapter pass in which no page operation fails ends with the name field
\* holding "Jane Doe" and has written neither the email nor the phone field
\* (stated for the two variants of autofillAshby that look for an all-capitals
\* name).
C3_CapsNameScenario ==
    (/\ adVariant \in {"ashby2", "ashbyMac"}
     /\ adStatus = "returned"
     /\ adFaults = 0
     /\ adFullName = NameCaps
     /\ adStart["name"] = NameCaps
     /\ adStart["email"] = Email
     /\ adStart["phone"] = Phone)
    => /\ adField["name"] = NameMixed
       /\ ~(\E w \in adLog : w[1] \in {"email", "phone"})

\* C4: when MyGreenhouse has populated the form before autofillGreenhouse is
\* called, the adapter returns without having changed a field value, a
\* dropdown selection or a file upload (stated for the passes in which no
\* page operation fails).
C4_GreenhouseShortCircuit ==
    (adVariant = "greenhouse" /\ adAutofilled /\ adStatus = "returned"
     /\ adFaults = 0)
    => /\ adField = adStart
       /\ adLog = {}
       /\ ~adUploaded
       /\ ~adSelected

(***************************************************************************)
(* The batch orchestrator                                                  *)
(*   detectPlatform, main                src/src/cli/applyBatch.ts 12-18,  *)
(*                                       85-166                            *)
(*   detectPlatform, setupControls, main src/src/cli/applyBatch_mac.ts     *)
(*                                       16-22, 133-198, 269-441           *)
(* The keypress handler runs whenever the main function is suspended at an *)
(* await, so a key can arrive between any two steps of the loop and        *)
(* between any two statements of an adapter.                               *)
(***************************************************************************)
MaxJobs == 2

Scheme == <<"h","t","t","p","s",":","/","/">>
DomainGreenhouse == <<"g","r","e","e","n","h","o","u","s","e",".","i","o">>
DomainLever == <<"j","o","b","s",".","l","e","v","e","r",".","c","o">>
DomainAshby == <<"a","s","h","b","y","h","q",".","c","o","m">>

\* the hosts a landed page can be on
Hosts ==
    {<<"b","o","a","r","d","s",".","g","r","e","e","n","h","o","u","s","e",".","i","o">>, <<"j","o","b","s",".","l","e","v","e","r",".","c","o">>, <<"j","o","b","s",".","a","s","h","b","y","h","q",".","c","o","m">>,
     <<"w","w","w",".","l","i","n","k","e","d","i","n",".","c","o","m">>, <<"c","a","r","e","e","r","s",".","a","c","m","e",".","c","o","m">>}
\* what follows the host: a plain path, and paths and query strings that
\* name another site (a redirect target, a referrer, a tracking parameter)
Rests ==
    {<<"/","a","c","m","e","/","j","o","b","s","/","1">>, <<"/","r","e","d","i","r","?","u","r","l","=","b","o","a","r","d","s",".","g","r","e","e","n","h","o","u","s","e",".","i","o","/","a","c","m","e">>,
     <<"/","j","o","b","s","/","1","?","R","e","f","=","J","o","b","s",".","L","e","v","e","r",".","c","o">>, <<"/","r","/","a","s","h","b","y","h","q",".","c","o","m">>}
LandedUrls == {Scheme \o h \o r : h \in Hosts, r \in Rests}

RECURSIVE TakeUntil(_, _)
TakeUntil(s, c) ==
    IF s = <<>> \/ Head(s) = c THEN <<>> ELSE <<Head(s)>> \o TakeUntil(Tail(s), c)
\* new URL(url).hostname for an https URL without port or credentials
Hostname(url) == TakeUntil(SubSeq(url, Len(Scheme) + 1, Len(url)), "/")
\* the host is the domain itself or a subdomain of it
OnDomain(host, d) ==
    \/ host = d
    \/ /\ Len(host) > Len(d)
       /\ SubSeq(host, Len(host) - Len(d), Len(host)) = <<".">> \o d

detectPlatform(url) ==
    LET u == LowerStr(url) IN
    IF Includes(u, DomainGreenhouse) THEN "greenhouse"
    ELSE IF Includes(u, DomainLever) THEN "lever"
    ELSE IF Includes(u, DomainAshby) THEN "ashby"
    ELSE "unknown"

DomainOf(platform) ==
    CASE platform = "greenhouse" -> DomainGreenhouse
      [] platform = "lever" -> DomainLever
      [] platform = "ashby" -> DomainAshby

BaVariants == {"applyBatch", "applyBatchMac"}
\* the adapters each orchestrator calls (applyBatch.ts 147-154,
\* applyBatch_mac.ts 379-403)
BaAdapters(variant) ==
    IF variant = "applyBatch" THEN {"ashby"} ELSE {"ashby", "greenhouse", "lever"}
\* the adapter body an orchestrator's import resolves to
BaAdapterVariant(variant, platform) ==
    CASE platform = "greenhouse" -> "greenhouse"
      [] platform = "lever" -> "lever"
      [] platform = "ashby" -> IF variant = "applyBatch" THEN "ashby2" ELSE "ashbyMac"
\* the statements of the adapter handed the page
BaSteps(variant, platform) == Len(AdProgram(BaAdapterVariant(variant, platform)))

BaChecks == {"check1", "check2", "check3", "check4"}
BaWaits == {"wait1", "wait2", "wait3", "wait4"}
BaWaitOf(pc) ==
    CASE pc = "check1" -> "wait1" [] pc = "check2" -> "wait2"
      [] pc = "check3" -> "wait3" [] pc = "check4" -> "wait4"
BaFirstPc(variant) == IF variant = "applyBatch" THEN "goto" ELSE "check1"

BaOthers == UNCHANGED <<qbVars, cbVars, ynVars, adVars, ofVars, fiVars, txVars, cpVars, frVars, ctVars, ujVars>>

BaInit ==
    /\ baVariant \in BaVariants
    /\ baJobs \in 0..MaxJobs
    /\ baPc = IF baJobs = 0 THEN "exit" ELSE BaFirstPc(baVariant)
    /\ baUrl = <<>>
    /\ baPlatform = "unknown"
    /\ baAdapter = "none"
    /\ baStep = 0
    /\ baPaused = FALSE
    /\ baStopped = FALSE
    /\ baInputLocked = FALSE
    /\ baStopAt = -1
    /\ baBrokeAt = "none"

BaIdle ==
    /\ baVariant = "applyBatch"
    /\ baJobs = 0
    /\ baPc = "off"
    /\ baUrl = <<>>
    /\ baPlatform = "unknown"
    /\ baAdapter = "none"
    /\ baStep = 0
    /\ baPaused = FALSE
    /\ baStopped = FALSE
    /\ baInputLocked = FALSE
    /\ baStopAt = -1
    /\ baBrokeAt = "none"

BaControls == <<baPaused, baStopped, baInputLocked, baStopAt>>
BaPage == <<baUrl, baPlatform, baAdapter, baStep>>

\* the for-of loop moves to its next job, or ends when none is left
BaNextJob ==
    /\ baJobs' = baJobs - 1
    /\ baPc' = IF baJobs = 1 THEN "exit" ELSE BaFirstPc(baVariant)
    /\ IF baJobs = 1
       THEN UNCHANGED <<BaPage, baStopAt>>
       ELSE /\ baUrl' = <<>>
            /\ baPlatform' = "unknown"
            /\ baAdapter' = "none"
            /\ baStep' = 0
            /\ baStopAt' = -1
    /\ UNCHANGED <<baVariant, baPaused, baStopped, baInputLocked, baBrokeAt>>

\* `if (controls.isStopped()) break;` (applyBatch_mac.ts 307, 336, 352, 423)
BaCheck ==
    /\ BaOthers
    /\ baPc \in BaChecks
    /\ IF baStopped
       THEN /\ baPc' = "exit"
            /\ baBrokeAt' = baPc
       ELSE /\ baPc' = BaWaitOf(baPc)
            /\ UNCHANGED baBrokeAt
    /\ UNCHANGED <<baVariant, baJobs, BaPage, BaControls>>

\* `await controls.waitIfPaused();`: returns once `paused && !stopped` is false
BaWaitIfPaused ==
    /\ baPc \in BaWaits
    /\ ~(baPaused /\ ~baStopped)
    /\ IF baPc = "wait4"
       THEN /\ BaOthers
            /\ BaNextJob
       ELSE /\ BaOthers
            /\ baPc' = CASE baPc = "wait1" -> "goto"
                         [] baPc = "wait2" -> "click"
                         [] baPc = "wait3" -> "detect"
            /\ UNCHANGED <<baVariant, baJobs, BaPage, BaControls, baBrokeAt>>

\* liPage.goto(link): guarded in applyBatch_mac.ts 324-335 (the job is
\* recorded and skipped), not guarded in applyBatch.ts 124
BaGoto ==
    /\ BaOthers
    /\ baPc = "goto"
    /\ \E ok \in BOOLEAN :
        IF ok
        THEN /\ baPc' = IF baVariant = "applyBatch" THEN "click" ELSE "check2"
             /\ UNCHANGED <<baVariant, baJobs, BaPage, BaControls, baBrokeAt>>
        ELSE IF baVariant = "applyBatch"
             THEN /\ baPc' = "failed"
                  /\ UNCHANGED <<baVariant, baJobs, BaPage, BaControls, baBrokeAt>>
             ELSE BaNextJob

\* clickApplyAndFindAtsPage: null in applyBatch_mac.ts when no Apply control
\* was clicked (107), always a page in applyBatch.ts (59, 67, 82)
BaClick ==
    /\ BaOthers
    /\ baPc = "click"
    /\ \E found \in BOOLEAN :
        IF found \/ baVariant = "applyBatch"
        THEN /\ baPc' = IF baVariant = "applyBatch" THEN "detect" ELSE "check3"
             /\ UNCHANGED <<baVariant, baJobs, BaPage, BaControls, baBrokeAt>>
        ELSE BaNextJob

\* atsPage.url(), detectPlatform and the dispatch on its result
\* (applyBatch.ts 133-154, applyBatch_mac.ts 356-421)
BaDetect ==
    /\ BaOthers
    /\ baPc = "detect"
    /\ \E url \in LandedUrls :
        LET platform == detectPlatform(url) IN
        IF platform = "unknown"
        THEN BaNextJob
        ELSE /\ baUrl' = url
             /\ baPlatform' = platform
             /\ baStep' = 0
             /\ IF platform \in BaAdapters(baVariant)
                THEN /\ baAdapter' = platform
                     /\ baPc' = "adapter"
                ELSE /\ baAdapter' = "none"
                     /\ baPc' = "after"
             /\ UNCHANGED <<baVariant, baJobs, BaControls, baBrokeAt>>

\* a variant of BaAdapterStep in which the adapter polls the stop flag
\* between its statements and returns as soon as it is set
BaAdapterStep_StopAware ==
    /\ BaOthers
    /\ baPc = "adapter"
    /\ baStep < BaSteps(baVariant, baAdapter)
    /\ IF baStopped
       THEN /\ baPc' = "after"
            /\ UNCHANGED baStep
       ELSE \E ok \in BOOLEAN :
               IF ok
               THEN /\ baStep' = baStep + 1
                    /\ UNCHANGED baPc
               ELSE /\ baPc' = "failed"
                    /\ UNCHANGED baStep
    /\ UNCHANGED <<baVariant, baJobs, baUrl, baPlatform, baAdapter, BaControls, baBrokeAt>>

\* one statement of the adapter that was handed the page: it runs to its
\* end, or a page operation outside any try rejects and main rejects with
\* it (applyBatch_mac.ts 443-446). No adapter receives `controls`.
BaAdapterStep ==
    /\ BaOthers
    /\ baPc = "adapter"
    /\ baStep < BaSteps(baVariant, baAdapter)
    /\ \E ok \in BOOLEAN :
        IF ok
        THEN /\ baStep' = baStep + 1
             /\ UNCHANGED baPc
        ELSE /\ baPc' = "failed"
             /\ UNCHANGED baStep
    /\ UNCHANGED <<baVariant, baJobs, baUrl, baPlatform, baAdapter, BaControls, baBrokeAt>>

\* the adapter's promise resolves
BaAdapterReturn ==
    /\ BaOthers
    /\ baPc = "adapter"
    /\ baStep = BaSteps(baVariant, baAdapter)
    /\ baPc' = "after"
    /\ UNCHANGED <<baVariant, baJobs, BaPage, BaControls, baBrokeAt>>

\* the 2 s wait and the tab clean-up after the dispatch
BaAfter ==
    /\ BaOthers
    /\ baPc = "after"
    /\ IF baVariant = "applyBatch"
       THEN BaNextJob
       ELSE /\ baPc' = "check4"
            /\ UNCHANGED <<baVariant, baJobs, BaPage, BaControls, baBrokeAt>>

\* after the loop: controls.lockInput() (applyBatch_mac.ts 429-431, 439)
BaFinish ==
    /\ BaOthers
    /\ baPc = "exit"
    /\ baPc' = "done"
    /\ baInputLocked' = (baInputLocked \/ baVariant = "applyBatchMac")
    /\ UNCHANGED <<baVariant, baJobs, BaPage, baPaused, baStopped, baStopAt, baBrokeAt>>

\* ---- the keypress handler (applyBatch_mac.ts 144-175)
\* A key press is delivered while main is suspended in an await that waits
\* for the page or for a timer.  `await controls.waitIfPaused()` is such a
\* wait only while the batch is paused (the 300 ms sleep of its loop): when
\* it is not, nothing runs between the stop check and the next statement.
BaKeysLive ==
    /\ baVariant = "applyBatchMac"
    /\ baPc \notin {"off", "done", "failed"}
    /\ baPc \in BaWaits => baPaused
    /\ ~baInputLocked
BaMarkStop ==
    baStopAt' = IF baPc = "adapter" /\ ~baStopped THEN baStep ELSE baStopAt
BaKeyFrame == UNCHANGED <<baVariant, baJobs, baPc, BaPage, baBrokeAt>>

\* Ctrl-C in raw mode
BaKeyCtrlC ==
    /\ BaOthers
    /\ BaKeysLive
    /\ baStopped' = TRUE
    /\ BaMarkStop
    /\ BaKeyFrame
    /\ UNCHANGED <<baPaused, baInputLocked>>

\* Enter toggles the pause
BaKeyReturn ==
    /\ BaOthers
    /\ BaKeysLive
    /\ baPaused' = ~baPaused
    /\ BaKeyFrame
    /\ UNCHANGED <<baStopped, baInputLocked, baStopAt>>

BaKeyP ==
    /\ BaOthers
    /\ BaKeysLive
    /\ baPaused' = TRUE
    /\ BaKeyFrame
    /\ UNCHANGED <<baStopped, baInputLocked, baStopAt>>

BaKeyR ==
    /\ BaOthers
    /\ BaKeysLive
    /\ baPaused' = FALSE
    /\ BaKeyFrame
    /\ UNCHANGED <<baStopped, baInputLocked, baStopAt>>

\* "s" or "q"
BaKeyStop ==
    /\ BaOthers
    /\ BaKeysLive
    /\ baStopped' = TRUE
    /\ baInputLocked' = TRUE
    /\ BaMarkStop
    /\ BaKeyFrame
    /\ UNCHANGED baPaused

BaNext ==
    \/ BaCheck
    \/ BaWaitIfPaused
    \/ BaGoto
    \/ BaClick
    \/ BaDetect
    \/ BaAdapterStep
    \/ BaAdapterReturn
    \/ BaAfter
    \/ BaFinish
    \/ BaKeyCtrlC
    \/ BaKeyReturn
    \/ BaKeyP
    \/ BaKeyR
    \/ BaKeyStop

\* C25: once a stop request has been registered by the batch controls (key
\* s, q or Ctrl-C), no adapter invocation is started any more, under every
\* interleaving of key presses with the batch loop, a stop pressed while the
\* loop waits in the paused state included.
C25_NoAdapterStartsAfterStop ==
    [][baStopped => ~(baPc # "adapter" /\ baPc' = "adapter")]_baVars

\* C11: a page is handed to an adapter only when its hostname is on the
\* domain of that adapter's platform; a page on any other host is never
\* handed to autofillAshby, autofillGreenhouse or autofillLever, whatever
\* its path or query string holds.
C11_OnlyKnownHostsReachAdapters ==
    baAdapter # "none" => OnDomain(Hostname(baUrl), DomainOf(baAdapter))

\* C12: a stop request raised while an adapter invocation is in progress
\* does not cut the invocation short: an invocation that returned has run
\* every statement of the adapter, and the loop is left on a stop request
\* only from one of its own checks, never from inside an adapter.
C12_StopHonoredBetweenInvocations ==
    /\ (baAdapter # "none" /\ baPc \notin {"adapter", "failed"})
           => baStep = BaSteps(baVariant, baAdapter)
    /\ baBrokeAt \in BaChecks \cup {"none"}

\* a stop request arrived in the middle of an adapter invocation, the
\* invocation has returned and the next check has ended the loop
C12_Witness_StopDuringAdapter ==
    /\ baPc = "done"
    /\ baStopAt > 0
    /\ baStopAt < baStep
    /\ baBrokeAt = "check4"
    /\ baJobs > 1

(***************************************************************************)
(* The office-excitement question                                          *)
(*   autofillAshby   src/src/apply/ashby.ts 391-392, 901-902               *)
(*   autofillAshby   src/src/apply/ashby_mac.ts 674-691                    *)
(* What answerYesNo returns for a phrasing depends on the page; the page   *)
(* is an input, one outcome per phrasing.                                  *)
(***************************************************************************)
officeQuestionPatterns ==
    <<"Mondays and Thursdays", "El Segundo", "San Francisco",
      "Are you excited to work from our", "Are you excited to work in our office",
      "excited to work from our", "excited to work in our office">>
\* the two calls of ashby.ts
officeQuestionCalls ==
    <<"Are you excited to work from our", "Are you excited to work in our office">>
OfPhrasings(variant) ==
    IF variant = "ashbyMac" THEN officeQuestionPatterns ELSE officeQuestionCalls
OfAllPhrasings == {officeQuestionPatterns[i] : i \in DOMAIN officeQuestionPatterns}

OfOthers == UNCHANGED <<qbVars, cbVars, ynVars, adVars, baVars, fiVars, txVars, cpVars, frVars, ctVars, ujVars>>

OfInit ==
    /\ ofVariant \in {"ashby1", "ashby2", "ashbyMac"}
    /\ ofPage \in [OfAllPhrasings -> BOOLEAN]
    /\ ofPc = 1
    /\ ofTried = <<>>
    /\ ofAnswered = FALSE

OfIdle ==
    /\ ofVariant = "ashby1"
    /\ ofPage = [p \in OfAllPhrasings |-> FALSE]
    /\ ofPc = 0
    /\ ofTried = <<>>
    /\ ofAnswered = FALSE

\* ashby.ts: `await answerYesNo(page, <phrasing>, "Yes");`, the result dropped
OfAnswerYesNoCall ==
    /\ OfOthers
    /\ ofVariant \in {"ashby1", "ashby2"}
    /\ ofPc \in DOMAIN officeQuestionCalls
    /\ LET p == officeQuestionCalls[ofPc] IN
        /\ ofTried' = Append(ofTried, [phrasing |-> p, answered |-> ofPage[p]])
        /\ ofPc' = ofPc + 1
    /\ UNCHANGED <<ofVariant, ofPage, ofAnswered>>

\* ashby_mac.ts 684-690: one turn of `for (const pattern of
\* officeQuestionPatterns)`, which breaks on the first true result
OfLoopStep ==
    /\ OfOthers
    /\ ofVariant = "ashbyMac"
    /\ ofPc \in DOMAIN officeQuestionPatterns
    /\ LET p == officeQuestionPatterns[ofPc] IN
        /\ ofTried' = Append(ofTried, [phrasing |-> p, answered |-> ofPage[p]])
        /\ ofAnswered' = ofPage[p]
        /\ ofPc' = IF ofPage[p] THEN Len(officeQuestionPatterns) + 1 ELSE ofPc + 1
    /\ UNCHANGED <<ofVariant, ofPage>>

\* the adapter moves on to its next section
OfMoveOn ==
    /\ OfOthers
    /\ ofPc = Len(OfPhrasings(ofVariant)) + 1
    /\ ofPc' = 0
    /\ UNCHANGED <<ofVariant, ofPage, ofTried, ofAnswered>>

OfNext == OfAnswerYesNoCall \/ OfLoopStep \/ OfMoveOn

\* C13: in every Ashby adapter variant the phrasings of the office
\* question are tried in their listed order, and once one phrasing has been
\* answered successfully no further phrasing is tried in that pass.
C13_StopsAtFirstAnsweredPhrasing ==
    /\ \A k \in DOMAIN ofTried : ofTried[k].phrasing = OfPhrasings(ofVariant)[k]
    /\ \A k \in DOMAIN ofTried : ofTried[k].answered => k = Len(ofTried)

(***************************************************************************)
(* Repeated text fill                                                      *)
(*   fillInputIfEmpty   src/src/apply/ashby.ts 1068-1082                   *)
(*   fillInputIfEmpty   src/src/apply/ashby_mac.ts 930-942                 *)
(* The same selector and value are passed to every call and nothing but    *)
(* the calls themselves writes the field.                                  *)
(***************************************************************************)
FiMaxCalls == 3

FiValues == {<<>>, <<" ">>, <<"a", "b">>, <<" ", "a">>}
FiContents == {<<>>, <<" ">>, <<"x">>, <<"a", "b">>}
FiEnvs == {"ok",             \* every page operation succeeds
           "hidden",         \* isVisible gives false
           "visRaises",      \* isVisible raises
           "firstReadRaises",\* the first inputValue raises
           "readRaises",     \* every inputValue of the call raises
           "fillRaises"}     \* fill raises

\* `existing && existing.trim().length > 0`
FiNonEmpty(existing) == existing # <<>> /\ Len(Trim(existing)) > 0

\* one call: [filled, ret], the field holding the value afterwards iff filled
FiOutcome(variant, value, content, env) ==
    LET existing == IF env \in {"firstReadRaises", "readRaises"} THEN <<>> ELSE content
        existingAgain == IF env = "readRaises" THEN <<>> ELSE content
    IN  IF value = <<>> THEN [filled |-> FALSE, ret |-> FALSE]
        ELSE IF env \in {"hidden", "visRaises"} THEN [filled |-> FALSE, ret |-> FALSE]
        ELSE IF FiNonEmpty(existing) THEN [filled |-> FALSE, ret |-> FALSE]
        ELSE IF variant = "ashby" /\ FiNonEmpty(existingAgain)
             THEN [filled |-> FALSE, ret |-> FALSE]
        ELSE IF env = "fillRaises" THEN [filled |-> FALSE, ret |-> FALSE]
        ELSE [filled |-> TRUE, ret |-> TRUE]

FiOthers == UNCHANGED <<qbVars, cbVars, ynVars, adVars, baVars, ofVars, txVars, cpVars, frVars, ctVars, ujVars>>

FiInit ==
    /\ fiVariant \in {"ashby", "mac"}
    /\ fiValue \in FiValues
    /\ fiField \in FiContents
    /\ fiLog = <<>>

FiIdle ==
    /\ fiVariant = "off"
    /\ fiValue = <<>>
    /\ fiField = <<>>
    /\ fiLog = <<>>

FiCall ==
    /\ FiOthers
    /\ fiVariant # "off"
    /\ Len(fiLog) < FiMaxCalls
    /\ \E env \in FiEnvs :
        LET out == FiOutcome(fiVariant, fiValue, fiField, env) IN
        /\ fiField' = IF out.filled THEN fiValue ELSE fiField
        /\ fiLog' = Append(fiLog, [env |-> env, before |-> fiField,
                                   filled |-> out.filled, ret |-> out.ret])
    /\ UNCHANGED <<fiVariant, fiValue>>

FiNext == FiCall

\* C14: of two fillInputIfEmpty calls with the same selector and value, on
\* a page where every operation succeeds and nothing else writes the field,
\* at most one fills the field, and the second performs no fill and
\* returns false.
C14_SecondFillIsNoOp ==
    (/\ Len(fiLog) >= 2
     /\ fiLog[1].env = "ok"
     /\ fiLog[2].env = "ok")
    => /\ ~(fiLog[1].filled /\ fiLog[2].filled)
       /\ ~fiLog[2].filled
       /\ ~fiLog[2].ret

(***************************************************************************)
(* Text functions                                                          *)
(*   normalizeYesNo, looksAllCapsName, toProperNameCase and the name       *)
(*   correction of autofillAshby   src/src/apply/ashby.ts 509-585, 829-838 *)
(*   normalizeGenderOptions, extractStateOptions, normalizeVeteranOptions, *)
(*   normalizeDisabilityOptions    src/src/apply/ashby.ts 956-1066         *)
(* An input is drawn at the start and one function is applied to it; the   *)
(* name correction can be run again on the field it has written.           *)
(***************************************************************************)
MaxTokens == 3
MaxPasses == 2

\* a `string | undefined` argument
Undefined == [kind |-> "undefined", text |-> <<>>, items |-> <<>>]
Str(t) == [kind |-> "string", text |-> t, items |-> <<>>]
Arr(l) == [kind |-> "array", text |-> <<>>, items |-> l]
\* `!value`
Falsy(v) == v.kind = "undefined" \/ (v.kind = "string" /\ v.text = <<>>)


NameTokens ==
    {<<"J","O","H","N">>, <<"S","M","I","T","H">>, <<"O","'","N","E","I","L">>, <<"A","N","N","A","-","M","A","R","I","A">>, <<"V","A","N">>, <<"D","E">>, <<"J","R">>,
     <<"I","I">>, <<"V">>, <<"X">>, <<"J",".">>, <<"A","n","n","a">>,
     <<"J", "O", "S", E_Acute>>}
RECURSIVE NamesOf(_)
NamesOf(n) ==
    IF n = 1 THEN NameTokens
    ELSE {a \o <<" ">> \o b : a \in NamesOf(n - 1), b \in NameTokens}
ExtraNames ==
    {<<>>, <<"J","o","h","n"," ","S","m","i","t","h">>, <<"L","U","D","W","I","G"," ","V","A","N"," ","B","E","E","T","H","O","V","E","N">>, <<" ","J","O","H","N"," "," ","S","M","I","T","H"," ">>, <<"A"," "," ","B">>, <<"-"," ","-">>}
Names == ExtraNames \cup UNION {NamesOf(n) : n \in 1..MaxTokens}

NoOut == [b |-> FALSE, t |-> <<>>, l |-> <<>>]
OutBool(b) == [b |-> b, t |-> <<>>, l |-> <<>>]
OutText(t) == [b |-> FALSE, t |-> t, l |-> <<>>]
OutList(l) == [b |-> FALSE, t |-> <<>>, l |-> l]

TxOthers == UNCHANGED <<qbVars, cbVars, ynVars, adVars, baVars, ofVars, fiVars, cpVars, frVars, ctVars, ujVars>>

TxIdle ==
    /\ txFamily = "off"
    /\ txIn = Undefined
    /\ txFallback = "No"
    /\ txOp = "none"
    /\ txOut = NoOut
    /\ txField = <<>>
    /\ txPasses = 0
    /\ txWrites = 0

TxFrame == UNCHANGED <<txFamily, txIn>>

TxLooksAllCapsName ==
    /\ TxOthers
    /\ txFamily = "name"
    /\ txOp = "none"
    /\ txOp' = "looksAllCapsName"
    /\ txOut' = OutBool(looksAllCapsName(txIn.text))
    /\ TxFrame
    /\ UNCHANGED <<txFallback, txField, txPasses, txWrites>>

TxToProperNameCase ==
    /\ TxOthers
    /\ txFamily = "name"
    /\ txOp = "none"
    /\ txOp' = "toProperNameCase"
    /\ txOut' = OutText(toProperNameCase(txIn.text))
    /\ TxFrame
    /\ UNCHANGED <<txFallback, txField, txPasses, txWrites>>

\* ashby.ts 829-838 on the name field: an all-caps name is replaced by its
\* proper-case form, an empty field gets profile.fullName, any other content
\* is kept
TxNameCorrection ==
    /\ TxOthers
    /\ txFamily = "name"
    /\ txOp \in {"none", "nameCorrection"}
    /\ txPasses < MaxPasses
    /\ txOp' = "nameCorrection"
    /\ txPasses' = txPasses + 1
    /\ IF looksAllCapsName(txField)
       THEN /\ txField' = toProperNameCase(txField)
            /\ txWrites' = txWrites + 1
       ELSE IF shouldFill(txField)
       THEN /\ txField' = NameMixed
            /\ txWrites' = txWrites + 1
       ELSE UNCHANGED <<txField, txWrites>>
    /\ txOut' = OutText(txField')
    /\ TxFrame
    /\ UNCHANGED txFallback

\* ---- normalizeYesNo (ashby.ts 509-515, ashby_mac.ts 99-105)
YesText == <<"Y","e","s">>
NoText == <<"N","o">>
AnswerText(a) == IF a = "Yes" THEN YesText ELSE NoText
StartsWith(s, c) == s # <<>> /\ s[1] = c

YesNoTexts ==
    {Undefined} \cup
    {Str(t) : t \in {<<>>, <<"y","e","s">>, <<"Y","e","p">>, <<"Y">>, <<"Y","E","S">>, <<"n","o">>, <<"N">>, <<"N","o","p","e">>,
                     <<" ","y","e","s">>, <<" ","N","o"," ">>, <<" "," ","n">>, <<" ">>, <<"t","r","u","e">>, <<"f","a","l","s","e">>,
                     <<"m","a","y","b","e">>, <<"1">>, <<"o","u","i">>, <<"a","n","y">>, <<"-","y","e","s">>}}

\* a variant of normalizeYesNo that tests the text as given, in its own case
normalizeYesNo_CaseSensitive(value, fallback) ==
    IF Falsy(value) THEN AnswerText(fallback)
    ELSE LET v == Trim(value.text)
         IN  IF StartsWith(v, "y") THEN YesText
             ELSE IF StartsWith(v, "n") THEN NoText
             ELSE AnswerText(fallback)

normalizeYesNo(value, fallback) ==
    IF Falsy(value) THEN AnswerText(fallback)
    ELSE LET v == LowerStr(Trim(value.text))
         IN  IF StartsWith(v, "y") THEN YesText
             ELSE IF StartsWith(v, "n") THEN NoText
             ELSE AnswerText(fallback)

TxNormalizeYesNo ==
    /\ TxOthers
    /\ txFamily = "yesno"
    /\ txOp = "none"
    /\ txOp' = "normalizeYesNo"
    /\ \E fallback \in Answers :
        /\ txFallback' = fallback
        /\ txOut' = OutText(normalizeYesNo(txIn, fallback))
    /\ TxFrame
    /\ UNCHANGED <<txField, txPasses, txWrites>>

\* ---- extractStateOptions (ashby.ts 969-1028)
StateMap ==
    {<<<<"A","l","a","b","a","m","a">>, <<"A","L">>>>,
     <<<<"A","l","a","s","k","a">>, <<"A","K">>>>,
     <<<<"A","r","i","z","o","n","a">>, <<"A","Z">>>>,
     <<<<"A","r","k","a","n","s","a","s">>, <<"A","R">>>>,
     <<<<"C","a","l","i","f","o","r","n","i","a">>, <<"C","A">>>>,
     <<<<"C","o","l","o","r","a","d","o">>, <<"C","O">>>>,
     <<<<"C","o","n","n","e","c","t","i","c","u","t">>, <<"C","T">>>>,
     <<<<"D","e","l","a","w","a","r","e">>, <<"D","E">>>>,
     <<<<"F","l","o","r","i","d","a">>, <<"F","L">>>>,
     <<<<"G","e","o","r","g","i","a">>, <<"G","A">>>>,
     <<<<"H","a","w","a","i","i">>, <<"H","I">>>>,
     <<<<"I","d","a","h","o">>, <<"I","D">>>>,
     <<<<"I","l","l","i","n","o","i","s">>, <<"I","L">>>>,
     <<<<"I","n","d","i","a","n","a">>, <<"I","N">>>>,
     <<<<"I","o","w","a">>, <<"I","A">>>>,
     <<<<"K","a","n","s","a","s">>, <<"K","S">>>>,
     <<<<"K","e","n","t","u","c","k","y">>, <<"K","Y">>>>,
     <<<<"L","o","u","i","s","i","a","n","a">>, <<"L","A">>>>,
     <<<<"M","a","i","n","e">>, <<"M","E">>>>,
     <<<<"M","a","r","y","l","a","n","d">>, <<"M","D">>>>,
     <<<<"M","a","s","s","a","c","h","u","s","e","t","t","s">>, <<"M","A">>>>,
     <<<<"M","i","c","h","i","g","a","n">>, <<"M","I">>>>,
     <<<<"M","i","n","n","e","s","o","t","a">>, <<"M","N">>>>,
     <<<<"M","i","s","s","i","s","s","i","p","p","i">>, <<"M","S">>>>,
     <<<<"M","i","s","s","o","u","r","i">>, <<"M","O">>>>,
     <<<<"M","o","n","t","a","n","a">>, <<"M","T">>>>,
     <<<<"N","e","b","r","a","s","k","a">>, <<"N","E">>>>,
     <<<<"N","e","v","a","d","a">>, <<"N","V">>>>,
     <<<<"N","e","w"," ","H","a","m","p","s","h","i","r","e">>, <<"N","H">>>>,
     <<<<"N","e","w"," ","J","e","r","s","e","y">>, <<"N","J">>>>,
     <<<<"N","e","w"," ","M","e","x","i","c","o">>, <<"N","M">>>>,
     <<<<"N","e","w"," ","Y","o","r","k">>, <<"N","Y">>>>,
     <<<<"N","o","r","t","h"," ","C","a","r","o","l","i","n","a">>, <<"N","C">>>>,
     <<<<"N","o","r","t","h"," ","D","a","k","o","t","a">>, <<"N","D">>>>,
     <<<<"O","h","i","o">>, <<"O","H">>>>,
     <<<<"O","k","l","a","h","o","m","a">>, <<"O","K">>>>,
     <<<<"O","r","e","g","o","n">>, <<"O","R">>>>,
     <<<<"P","e","n","n","s","y","l","v","a","n","i","a">>, <<"P","A">>>>,
     <<<<"R","h","o","d","e"," ","I","s","l","a","n","d">>, <<"R","I">>>>,
     <<<<"S","o","u","t","h"," ","C","a","r","o","l","i","n","a">>, <<"S","C">>>>,
     <<<<"S","o","u","t","h"," ","D","a","k","o","t","a">>, <<"S","D">>>>,
     <<<<"T","e","n","n","e","s","s","e","e">>, <<"T","N">>>>,
     <<<<"T","e","x","a","s">>, <<"T","X">>>>,
     <<<<"U","t","a","h">>, <<"U","T">>>>,
     <<<<"V","e","r","m","o","n","t">>, <<"V","T">>>>,
     <<<<"V","i","r","g","i","n","i","a">>, <<"V","A">>>>,
     <<<<"W","a","s","h","i","n","g","t","o","n">>, <<"W","A">>>>,
     <<<<"W","e","s","t"," ","V","i","r","g","i","n","i","a">>, <<"W","V">>>>,
     <<<<"W","i","s","c","o","n","s","i","n">>, <<"W","I">>>>,
     <<<<"W","y","o","m","i","n","g">>, <<"W","Y">>>>}
StateNames == {p[1] : p \in StateMap}
\* `map[state] ?? ""`
AbbrOf(state) ==
    IF state \in StateNames THEN (CHOOSE p \in StateMap : p[1] = state)[2] ELSE <<>>

\* String.prototype.split with a one-character separator
RECURSIVE SplitOn(_, _, _, _)
SplitOn(s, c, cur, acc) ==
    IF s = <<>> THEN Append(acc, cur)
    ELSE IF Head(s) = c THEN SplitOn(Tail(s), c, <<>>, Append(acc, cur))
    ELSE SplitOn(Tail(s), c, Append(cur, Head(s)), acc)

\* a variant of extractStateOptions that takes the last part as the state
extractStateOptions_LastPart(location) ==
    IF Falsy(location) THEN <<>>
    ELSE LET split == SplitOn(location.text, ",", <<>>, <<>>)
             parts == [i \in DOMAIN split |-> Trim(split[i])]
         IN  IF Len(parts) < 2 THEN <<>>
             ELSE LET state == parts[Len(parts)]
                      abbr == AbbrOf(state)
                  IN  IF abbr # <<>> THEN <<state, abbr>> ELSE <<state>>

extractStateOptions(location) ==
    IF Falsy(location) THEN <<>>
    ELSE LET split == SplitOn(location.text, ",", <<>>, <<>>)
             parts == [i \in DOMAIN split |-> Trim(split[i])]
         IN  IF Len(parts) < 2 THEN <<>>
             ELSE LET state == parts[2]
                      abbr == AbbrOf(state)
                  IN  IF abbr # <<>> THEN <<state, abbr>> ELSE <<state>>

Cities == {<<"A","u","s","t","i","n">>, <<"N","e","w"," ","Y","o","r","k">>}
CommaForms == {<<",">>, <<","," ">>, <<" ",","," "," ">>}
StateTokens == StateNames \cup {<<"T","X">>, <<"t","e","x","a","s">>, <<"T","e","x">>, <<>>}
LocationTails == {<<>>, <<","," ","U","S","A">>, <<",">>}
Locations ==
    {Undefined, Str(<<>>), Str(<<"A","u","s","t","i","n">>), Str(<<" ">>), Str(<<"R","e","m","o","t","e">>)} \cup
    {Str(c \o f \o s \o t) :
        c \in Cities, f \in CommaForms, s \in StateTokens, t \in LocationTails}

TxExtractStateOptions ==
    /\ TxOthers
    /\ txFamily = "location"
    /\ txOp = "none"
    /\ txOp' = "extractStateOptions"
    /\ txOut' = OutList(extractStateOptions(txIn))
    /\ TxFrame
    /\ UNCHANGED <<txFallback, txField, txPasses, txWrites>>

\* ---- normalizeGenderOptions, normalizeVeteranOptions and
\* ---- normalizeDisabilityOptions (ashby.ts 956-967, 1030-1066)
MaleLabel == <<"M","a","l","e">>
FemaleLabel == <<"F","e","m","a","l","e">>
NotVeteranLabel == <<"I"," ","a","m"," ","n","o","t"," ","a"," ","p","r","o","t","e","c","t","e","d"," ","v","e","t","e","r","a","n">>
VeteranLabel ==
    <<"I"," ","i","d","e","n","t","i","f","y"," ","a","s"," ","o","n","e"," ","o","r"," ","m","o","r","e"," ","o","f"," ","t","h","e"," ","c","l","a","s","s","i","f","i","c","a","t","i","o","n","s"," ","o","f"," ","a"," ","p","r","o","t","e","c","t","e","d"," ","v","e","t","e","r","a","n">>
VeteranDeclineLabel == <<"I"," ","d","o","n","'","t"," ","w","i","s","h"," ","t","o"," ","a","n","s","w","e","r">>
NoDisabilityLabel ==
    <<"N","o",","," ","I"," ","d","o"," ","n","o","t"," ","h","a","v","e"," ","a"," ","d","i","s","a","b","i","l","i","t","y"," ","a","n","d"," ","h","a","v","e"," ","n","o","t"," ","h","a","d"," ","o","n","e"," ","i","n"," ","t","h","e"," ","p","a","s","t">>
DisabilityLabel == <<"Y","e","s",","," ","I"," ","h","a","v","e"," ","a"," ","d","i","s","a","b","i","l","i","t","y",","," ","o","r"," ","h","a","v","e"," ","h","a","d"," ","o","n","e"," ","i","n"," ","t","h","e"," ","p","a","s","t">>
DisabilityDeclineLabel == <<"I"," ","d","o"," ","n","o","t"," ","w","a","n","t"," ","t","o"," ","a","n","s","w","e","r">>

\* `Array.isArray(value) ? value : value ? [value] : []`
ToValues(value) ==
    IF value.kind = "array" THEN value.items
    ELSE IF Falsy(value) THEN <<>>
    ELSE <<value.text>>

\* a variant of GenderLabel that hands on the lower-cased text
GenderLabel_Lowered(v) ==
    LET t == LowerStr(v) IN
    IF t = <<"m","a","n">> \/ t = <<"m","a","l","e">> THEN MaleLabel
    ELSE IF t = <<"w","o","m","a","n">> \/ t = <<"f","e","m","a","l","e">> THEN FemaleLabel
    ELSE t

GenderLabel(v) ==
    LET t == LowerStr(v) IN
    IF t = <<"m","a","n">> \/ t = <<"m","a","l","e">> THEN MaleLabel
    ELSE IF t = <<"w","o","m","a","n">> \/ t = <<"f","e","m","a","l","e">> THEN FemaleLabel
    ELSE v

VeteranOptionLabel(v) ==
    LET t == LowerStr(v) IN
    IF Includes(t, <<"n","o","t"," ","a"," ","v","e","t","e","r","a","n">>) \/ Includes(t, <<"n","o","t"," ","a"," ","p","r","o","t","e","c","t","e","d">>)
    THEN NotVeteranLabel
    ELSE IF Includes(t, <<"p","r","o","t","e","c","t","e","d"," ","v","e","t","e","r","a","n">>) \/ Includes(t, <<"i","d","e","n","t","i","f","y">>)
    THEN VeteranLabel
    ELSE IF Includes(t, <<"d","o","n","'","t"," ","w","i","s","h">>) \/ Includes(t, <<"p","r","e","f","e","r"," ","n","o","t">>)
    THEN VeteranDeclineLabel
    ELSE v

DisabilityOptionLabel(v) ==
    LET t == LowerStr(v) IN
    IF \/ Includes(t, <<"n","o"," ","d","i","s","a","b","i","l","i","t","y">>)
       \/ (Includes(t, <<"n","o">>) /\ Includes(t, <<"d","i","s","a","b","i","l","i","t","y">>))
    THEN NoDisabilityLabel
    ELSE IF Includes(t, <<"y","e","s">>) \/ Includes(t, <<"d","i","s","a","b","i","l","i","t","y">>)
    THEN DisabilityLabel
    ELSE IF Includes(t, <<"p","r","e","f","e","r"," ","n","o","t">>) \/ Includes(t, <<"d","o"," ","n","o","t"," ","w","a","n","t">>)
    THEN DisabilityDeclineLabel
    ELSE v

\* the label one normalizer gives one entry
LabelOf(normalizer, v) ==
    CASE normalizer = "gender" -> GenderLabel(v)
      [] normalizer = "veteran" -> VeteranOptionLabel(v)
      [] normalizer = "disability" -> DisabilityOptionLabel(v)

\* the loop over `values` into the Set `out`, then Array.from(out): the
\* empty entries skipped, the labels in insertion order, each once
RECURSIVE CollectLabels(_, _, _)
CollectLabels(values, normalizer, out) ==
    IF values = <<>> THEN out
    ELSE LET v == Head(values)
             l == LabelOf(normalizer, v)
         IN  IF v = <<>> \/ l \in Range(out)
             THEN CollectLabels(Tail(values), normalizer, out)
             ELSE CollectLabels(Tail(values), normalizer, Append(out, l))

normalizeGenderOptions(value) == CollectLabels(ToValues(value), "gender", <<>>)
normalizeVeteranOptions(value) == CollectLabels(ToValues(value), "veteran", <<>>)
normalizeDisabilityOptions(value) ==
    CollectLabels(ToValues(value), "disability", <<>>)

GenderWords ==
    {<<"m","a","l","e">>, <<"M","a","l","e">>, <<"M","A","L","E">>, <<"m","a","n">>, <<"M","a","n">>, <<"w","o","m","a","n">>, <<"W","O","M","A","N">>,
     <<"f","e","m","a","l","e">>, <<"F","e","m","a","l","e">>, <<"N","o","n","-","b","i","n","a","r","y">>, <<"m","a","l","e","s">>, <<" ","m","a","l","e">>, <<"O","t","h","e","r">>,
     <<"P","r","e","f","e","r"," ","n","o","t"," ","t","o"," ","s","a","y">>}
VeteranWords ==
    {NotVeteranLabel, VeteranLabel, VeteranDeclineLabel, <<"N","o","t"," ","a"," ","v","e","t","e","r","a","n">>,
     <<"P","r","o","t","e","c","t","e","d"," ","V","e","t","e","r","a","n">>, <<"P","r","e","f","e","r"," ","n","o","t"," ","t","o"," ","s","a","y">>, <<"N","o">>, <<"V","e","t","e","r","a","n">>,
     <<"D","e","c","l","i","n","e">>, <<"I"," ","p","r","e","f","e","r"," ","n","o","t"," ","t","o"," ","i","d","e","n","t","i","f","y">>}
DisabilityWords ==
    {NoDisabilityLabel, DisabilityLabel, DisabilityDeclineLabel, <<"N","o"," ","d","i","s","a","b","i","l","i","t","y">>,
     <<"Y","e","s">>, <<"I"," ","h","a","v","e"," ","a"," ","d","i","s","a","b","i","l","i","t","y">>, <<"P","r","e","f","e","r"," ","N","o","t"," ","T","o"," ","S","a","y">>, <<"N","o">>, <<"N","o","n","e">>,
     <<"D","e","c","l","i","n","e">>, <<"I"," ","p","r","e","f","e","r"," ","n","o","t"," ","t","o"," ","d","i","s","c","l","o","s","e"," ","a"," ","d","i","s","a","b","i","l","i","t","y">>}
\* a string, undefined, or an array of up to two strings
DemographicInputs(words) ==
    {Undefined, Str(<<>>)} \cup {Str(w) : w \in words}
    \cup {Arr(<<a, b>>) : a \in words, b \in words}

TxNormalizeGenderOptions ==
    /\ TxOthers
    /\ txFamily = "gender"
    /\ txOp = "none"
    /\ txOp' = "normalizeGenderOptions"
    /\ txOut' = OutList(normalizeGenderOptions(txIn))
    /\ TxFrame
    /\ UNCHANGED <<txFallback, txField, txPasses, txWrites>>

TxNormalizeVeteranOptions ==
    /\ TxOthers
    /\ txFamily = "veteran"
    /\ txOp = "none"
    /\ txOp' = "normalizeVeteranOptions"
    /\ txOut' = OutList(normalizeVeteranOptions(txIn))
    /\ TxFrame
    /\ UNCHANGED <<txFallback, txField, txPasses, txWrites>>

TxNormalizeDisabilityOptions ==
    /\ TxOthers
    /\ txFamily = "disability"
    /\ txOp = "none"
    /\ txOp' = "normalizeDisabilityOptions"
    /\ txOut' = OutList(normalizeDisabilityOptions(txIn))
    /\ TxFrame
    /\ UNCHANGED <<txFallback, txField, txPasses, txWrites>>

TxInputs(family) ==
    CASE family = "name" -> {Str(n) : n \in Names}
      [] family = "yesno" -> YesNoTexts
      [] family = "location" -> Locations
      [] family = "gender" -> DemographicInputs(GenderWords)
      [] family = "veteran" -> DemographicInputs(VeteranWords)
      [] family = "disability" -> DemographicInputs(DisabilityWords)

TxInit ==
    /\ txFamily \in {"name", "yesno", "location", "gender", "veteran", "disability"}
    /\ txIn \in TxInputs(txFamily)
    /\ txFallback = "No"
    /\ txOp = "none"
    /\ txOut = NoOut
    /\ txField = txIn.text
    /\ txPasses = 0
    /\ txWrites = 0

TxNext ==
    \/ TxLooksAllCapsName
    \/ TxToProperNameCase
    \/ TxNameCorrection
    \/ TxNormalizeYesNo
    \/ TxExtractStateOptions
    \/ TxNormalizeGenderOptions
    \/ TxNormalizeVeteranOptions
    \/ TxNormalizeDisabilityOptions

\* ---- the claims about the text functions

\* some token other than II, III, IV, V has a capital letter that neither
\* starts the token nor follows a hyphen or an apostrophe
HasLetterToLower(name) ==
    LET parts == Words(name) IN
    \E i \in DOMAIN parts :
        /\ parts[i] \notin {<<"I","I">>, <<"I","I","I">>, <<"I","V">>, <<"V">>}
        /\ \E k \in 2..Len(parts[i]) :
            IsUpper(parts[i][k]) /\ parts[i][k - 1] \notin {"-", "'"}

\* C15 as stated: for every two-token name that looksAllCapsName accepts,
\* the field the name correction has written is rejected by
\* looksAllCapsName, and a second run of the correction performs no write.
C15_CorrectedNameIsRejected ==
    (/\ txOp = "nameCorrection"
     /\ Len(Words(txIn.text)) = 2
     /\ looksAllCapsName(txIn.text))
    => /\ ~looksAllCapsName(txField)
       /\ txPasses = 2 => txWrites = 1

\* C15 as amended: the same, for the two-token names in which some token
\* other than II, III, IV, V has a letter that neither starts the token nor
\* follows a hyphen or an apostrophe.
C15_CorrectedNameIsRejected_Amended ==
    (/\ txOp = "nameCorrection"
     /\ Len(Words(txIn.text)) = 2
     /\ looksAllCapsName(txIn.text)
     /\ HasLetterToLower(txIn.text))
    => /\ ~looksAllCapsName(txField)
       /\ txPasses = 2 => txWrites = 1

C15_Witness_SecondPassWritesNothing ==
    /\ txOp = "nameCorrection"
    /\ txIn.text = <<"J","O","H","N"," ","S","M","I","T","H">>
    /\ txPasses = 2
    /\ txWrites = 1
    /\ txField = <<"J","o","h","n"," ","S","m","i","t","h">>

\* C16 as stated: normalizeYesNo returns "Yes" when the first character of
\* the input is y or Y, "No" when it is n or N, and the fallback for every
\* other input, undefined and the empty string included.
C16_FirstCharacterDecides ==
    txOp = "normalizeYesNo" =>
        txOut.t = IF Falsy(txIn) THEN AnswerText(txFallback)
                  ELSE IF txIn.text[1] \in {"y", "Y"} THEN YesText
                  ELSE IF txIn.text[1] \in {"n", "N"} THEN NoText
                  ELSE AnswerText(txFallback)

\* C16 as amended: the character that decides is the first one that is not
\* whitespace; an input of whitespace only gives the fallback.
C16_FirstVisibleCharacterDecides ==
    txOp = "normalizeYesNo" =>
        LET rest == IF Falsy(txIn) THEN <<>> ELSE TrimLeft(txIn.text) IN
        txOut.t = IF rest = <<>> THEN AnswerText(txFallback)
                  ELSE IF rest[1] \in {"y", "Y"} THEN YesText
                  ELSE IF rest[1] \in {"n", "N"} THEN NoText
                  ELSE AnswerText(txFallback)

C16_Witness_CapitalAfterSpace ==
    /\ txOp = "normalizeYesNo"
    /\ txIn = Str(<<" ","N","o"," ">>)
    /\ txFallback = "Yes"
    /\ txOut.t = NoText

\* C17: looksAllCapsName returns true exactly for the strings that have at
\* least two whitespace-separated tokens, contain no lowercase letter and
\* consist only of letters, spaces, apostrophes, hyphens and periods.
C17_AllCapsExactly ==
    txOp = "looksAllCapsName" =>
        (txOut.b <=>
            /\ Len(Words(txIn.text)) >= 2
            /\ \A k \in DOMAIN txIn.text :
                /\ ~IsLowerLetter(txIn.text[k])
                /\ IsLetter(txIn.text[k]) \/ txIn.text[k] \in {" ", "'", "-", "."})

\* what the claim gives for one token of the name
ProperToken(raw, i, o) ==
    IF raw \in {<<"I","I">>, <<"I","I","I">>, <<"I","V">>, <<"V">>} THEN o = raw
    ELSE IF raw = <<"J","R">> THEN o = <<"J","r",".">>
    ELSE IF raw = <<"S","R">> THEN o = <<"S","r",".">>
    ELSE IF i > 1 /\ raw \in {<<"D","E">>, <<"D","A">>, <<"D","O","S">>, <<"D","E","L">>, <<"V","A","N">>, <<"V","O","N">>,
                               <<"D","I">>, <<"L","A">>, <<"L","E">>}
    THEN o = LowerStr(raw)
    ELSE /\ Len(o) = Len(raw)
         /\ \A k \in DOMAIN raw :
             o[k] = IF raw[k] \in {"-", "'"} THEN raw[k]
                    ELSE IF k = 1 \/ raw[k - 1] \in {"-", "'"} THEN ToUpper(raw[k])
                    ELSE ToLower(raw[k])

\* C18: toProperNameCase title-cases every token, keeps the suffixes II,
\* III, IV, V verbatim, turns JR and SR into "Jr." and "Sr.", lower-cases
\* the particles when they are not the first token, and title-cases every
\* hyphen- or apostrophe-delimited segment on its own, keeping the delimiter.
C18_ProperNameCase ==
    txOp = "toProperNameCase" =>
        LET parts == Words(txIn.text)
            outs == Words(txOut.t)
        IN  /\ Len(outs) = Len(parts)
            /\ \A i \in DOMAIN parts : ProperToken(parts[i], i, outs[i])
            /\ txIn.text = <<"L","U","D","W","I","G"," ","V","A","N"," ","B","E","E","T","H","O","V","E","N">> => txOut.t = <<"L","u","d","w","i","g"," ","v","a","n"," ","B","e","e","t","h","o","v","e","n">>

C18_Witness_HyphenAndApostrophe ==
    /\ txOp = "toProperNameCase"
    /\ txIn.text = <<"A","N","N","A","-","M","A","R","I","A"," ","O","'","N","E","I","L">>
    /\ txOut.t = <<"A","n","n","a","-","M","a","r","i","a"," ","O","'","N","e","i","l">>

\* the text between the first comma and the next one (or the end), trimmed
StateToken(text) ==
    LET first == CHOOSE i \in DOMAIN text :
                     text[i] = "," /\ \A j \in 1..(i - 1) : text[j] # ","
    IN  Trim(TakeUntil(SubSeq(text, first + 1, Len(text)), ","))

VeteranSynonyms ==
    {<<"n","o","t"," ","a"," ","v","e","t","e","r","a","n">>, <<"n","o","t"," ","a"," ","p","r","o","t","e","c","t","e","d">>, <<"p","r","o","t","e","c","t","e","d"," ","v","e","t","e","r","a","n">>, <<"i","d","e","n","t","i","f","y">>,
     <<"d","o","n","'","t"," ","w","i","s","h">>, <<"p","r","e","f","e","r"," ","n","o","t">>}
DisabilitySynonyms ==
    {<<"n","o"," ","d","i","s","a","b","i","l","i","t","y">>, <<"y","e","s">>, <<"d","i","s","a","b","i","l","i","t","y">>, <<"p","r","e","f","e","r"," ","n","o","t">>, <<"d","o"," ","n","o","t"," ","w","a","n","t">>}
MatchesNone(text, synonyms) == \A s \in synonyms : ~Includes(LowerStr(text), s)

DeclinePhrases == {<<"p","r","e","f","e","r"," ","n","o","t">>, <<"d","o","n","'","t"," ","w","i","s","h">>, <<"d","o"," ","n","o","t"," ","w","a","n","t">>}
Declines(text) == \E p \in DeclinePhrases : Includes(LowerStr(text), p)

\* C24: an input that declines to answer (it contains "prefer not", "don't
\* wish" or "do not want") is normalized by normalizeVeteranOptions and by
\* normalizeDisabilityOptions to the decline-to-answer label alone, whatever
\* other words it contains.
C24_DeclineStaysDecline ==
    LET declining ==
            \/ txIn.kind = "string" /\ Declines(txIn.text)
            \/ /\ txIn.kind = "array"
               /\ txIn.items # <<>>
               /\ \A k \in DOMAIN txIn.items : Declines(txIn.items[k])
    IN  /\ (txOp = "normalizeVeteranOptions" /\ declining)
              => txOut.l = <<VeteranDeclineLabel>>
        /\ (txOp = "normalizeDisabilityOptions" /\ declining)
              => txOut.l = <<DisabilityDeclineLabel>>

\* ---------------------------------------------------------------------
\* The combobox calls of one adapter pass (autofillAshby, "Dropdowns")
\* ---------------------------------------------------------------------

\* questions rendered on one posting, each with a combobox of its own
MaxPageQuestions == 2

CpQuestions ==
    { <<"C","u","r","r","e","n","t"," ","L","o","c","a","t","i","o","n">>,
      <<"L","o","c","a","t","i","o","n"," ","(","C","i","t","y",")">>,
      <<"C","i","t","y">>,
      <<"W","h","e","r","e"," ","a","r","e"," ","y","o","u"," ","l","o","c","a","t","e","d","?">>,
      <<"W","h","a","t"," ","i","s"," ","y","o","u","r"," ","c","u","r","r","e","n","t"," ","U",".","S","."," ","w","o","r","k"," ","a","u","t","h","o","r","i","z","a","t","i","o","n"," ","s","t","a","t","u","s","?">>,
      <<"U",".","S","."," ","w","o","r","k"," ","a","u","t","h","o","r","i","z","a","t","i","o","n"," ","s","t","a","t","u","s">> }

CpPages ==
    {p \in UNION {[1..n -> CpQuestions] : n \in 0..MaxPageQuestions} :
        \A i, j \in DOMAIN p : i # j => p[i] # p[j]}

\* page.getByText(new RegExp(escapeRegex(questionText), "i")).first(), then
\* the combobox that follows the question inside its block: the index of the
\* first question of the page whose text contains the phrasing, 0 for null
getComboboxInputForQuestion(page, questionText) ==
    LET hits == {k \in DOMAIN page :
                    Includes(LowerStr(page[k]), LowerStr(questionText))}
    IN  IF hits = {} THEN 0
        ELSE CHOOSE k \in hits : \A j \in hits : k <= j

CpCallOf(q, value, guard, sets) ==
    [q |-> q, value |-> value, guard |-> guard, sets |-> sets]

\* ashby.ts, both implementations: the location call, then, under
\* if (profile.workAuthorization?.currentStatus), three calls in a row
CpProgramAshby ==
    << CpCallOf(<<"C","u","r","r","e","n","t"," ","L","o","c","a","t","i","o","n">>, "location", "always", "none"),
       CpCallOf(<<"W","h","a","t"," ","i","s"," ","y","o","u","r"," ","c","u","r","r","e","n","t"," ","U",".","S","."," ","w","o","r","k"," ","a","u","t","h","o","r","i","z","a","t","i","o","n"," ","s","t","a","t","u","s">>,
                "status", "status", "none"),
       CpCallOf(<<"c","u","r","r","e","n","t"," ","U",".","S","."," ","w","o","r","k"," ","a","u","t","h","o","r","i","z","a","t","i","o","n"," ","s","t","a","t","u","s">>,
                "status", "status", "none"),
       CpCallOf(<<"U",".","S","."," ","w","o","r","k"," ","a","u","t","h","o","r","i","z","a","t","i","o","n"," ","s","t","a","t","u","s">>,
                "status", "status", "none") >>

\* ashby_mac.ts: the alternates run under if (!locationFilled &&
\* profile.location) and if (!authFilled)
CpProgramMac ==
    << CpCallOf(<<"C","u","r","r","e","n","t"," ","L","o","c","a","t","i","o","n">>, "location", "always", "location"),
       CpCallOf(<<"L","o","c","a","t","i","o","n">>, "location", "locationAlt", "none"),
       CpCallOf(<<"W","h","e","r","e"," ","a","r","e"," ","y","o","u"," ","l","o","c","a","t","e","d">>, "location", "locationAlt", "none"),
       CpCallOf(<<"C","i","t","y">>, "location", "locationAlt", "none"),
       CpCallOf(<<"W","h","a","t"," ","i","s"," ","y","o","u","r"," ","c","u","r","r","e","n","t"," ","U",".","S","."," ","w","o","r","k"," ","a","u","t","h","o","r","i","z","a","t","i","o","n"," ","s","t","a","t","u","s">>,
                "status", "status", "auth"),
       CpCallOf(<<"c","u","r","r","e","n","t"," ","U",".","S","."," ","w","o","r","k"," ","a","u","t","h","o","r","i","z","a","t","i","o","n"," ","s","t","a","t","u","s">>,
                "status", "authAlt", "none") >>

CpProgram(variant) == IF variant = "ashbyMac" THEN CpProgramMac ELSE CpProgramAshby

\* what the page does to one call that reached its combobox
CpEnvs == {"hidden", "clickRaises", "typeRaises", "exact", "first",
           "keyboard", "pressRaises"}

\* fillComboboxForQuestion as one call: which of clear (fill("")), type and
\* option click happened, and the value returned
CpOutcome(hasValue, box, env) ==
    LET r(c, t, o, v) == [cleared |-> c, typed |-> t, confirmed |-> o, ret |-> v]
    IN  IF ~hasValue \/ box = 0 THEN r(FALSE, FALSE, FALSE, FALSE)
        ELSE CASE env = "hidden"      -> r(FALSE, FALSE, FALSE, FALSE)
               [] env = "clickRaises" -> r(FALSE, FALSE, FALSE, FALSE)
               [] env = "typeRaises"  -> r(TRUE, FALSE, FALSE, FALSE)
               [] env = "exact"       -> r(TRUE, TRUE, TRUE, TRUE)
               [] env = "first"       -> r(TRUE, TRUE, TRUE, TRUE)
               [] env = "keyboard"    -> r(TRUE, TRUE, FALSE, TRUE)
               [] env = "pressRaises" -> r(TRUE, TRUE, FALSE, FALSE)

CpOthers == UNCHANGED <<qbVars, cbVars, ynVars, adVars, baVars, ofVars, fiVars, txVars, frVars, ctVars, ujVars>>

CpInit ==
    /\ cpVariant \in {"ashby", "ashbyMac"}
    /\ cpPage \in CpPages
    /\ cpLocation \in BOOLEAN
    /\ cpStatus \in BOOLEAN
    /\ cpPc = 1
    /\ cpLocationFilled = FALSE
    /\ cpAuthFilled = FALSE
    /\ cpLog = <<>>

CpIdle ==
    /\ cpVariant = "off"
    /\ cpPage = <<>>
    /\ cpLocation = FALSE
    /\ cpStatus = FALSE
    /\ cpPc = 0
    /\ cpLocationFilled = FALSE
    /\ cpAuthFilled = FALSE
    /\ cpLog = <<>>

CpRunning == cpVariant # "off" /\ cpPc \in DOMAIN CpProgram(cpVariant)

CpGuard(guard) ==
    CASE guard = "always"      -> TRUE
      [] guard = "status"      -> cpStatus
      [] guard = "locationAlt" -> ~cpLocationFilled /\ cpLocation
      [] guard = "authAlt"     -> cpStatus /\ ~cpAuthFilled

\* a call the adapter does not make
CpSkip ==
    /\ CpOthers
    /\ CpRunning
    /\ ~CpGuard(CpProgram(cpVariant)[cpPc].guard)
    /\ cpPc' = cpPc + 1
    /\ UNCHANGED <<cpVariant, cpPage, cpLocation, cpStatus, cpLocationFilled,
                   cpAuthFilled, cpLog>>

\* one fillComboboxForQuestion call of the adapter
CpFill ==
    /\ CpOthers
    /\ CpRunning
    /\ LET call == CpProgram(cpVariant)[cpPc]
           box == getComboboxInputForQuestion(cpPage, call.q)
           hasValue == IF call.value = "location" THEN cpLocation ELSE cpStatus
       IN  /\ CpGuard(call.guard)
           /\ \E env \in CpEnvs :
                LET out == CpOutcome(hasValue, box, env)
                IN  /\ (~hasValue \/ box = 0) => env = "hidden"
                    /\ cpLog' = Append(cpLog, [q |-> call.q, box |-> box,
                                               cleared |-> out.cleared,
                                               typed |-> out.typed,
                                               confirmed |-> out.confirmed,
                                               ret |-> out.ret])
                    /\ cpLocationFilled' =
                         IF call.sets = "location" THEN out.ret ELSE cpLocationFilled
                    /\ cpAuthFilled' =
                         IF call.sets = "auth" THEN out.ret ELSE cpAuthFilled
    /\ cpPc' = cpPc + 1
    /\ UNCHANGED <<cpVariant, cpPage, cpLocation, cpStatus>>

CpNext == CpSkip \/ CpFill

\* C21: within one adapter pass, once a call has typed into a combobox and
\* clicked an option of it, no later call of the pass clears or types into
\* that combobox again.
C21_ComboboxTypedOnce ==
    \A i, j \in DOMAIN cpLog :
        (i < j /\ cpLog[i].typed /\ cpLog[i].confirmed /\ cpLog[i].box = cpLog[j].box)
            => ~(cpLog[j].cleared \/ cpLog[j].typed)

\* ---------------------------------------------------------------------
\* fillInputIfEmpty against a page that writes the field on its own
\*   ashby.ts 1068-1082 (two reads), ashby_mac.ts 930-942 (one read)
\* Every await of the helper is a step; the page's own writes (platform
\* autofill, a re-render) may come between any two of them.
\* ---------------------------------------------------------------------
MaxPageWrites == 2

\* what the field holds: nothing, white space, a value the page wrote, the
\* profile value
FrContents == {"empty", "blank", "page", "profile"}

\* existing && existing.trim().length > 0
FrNonEmpty(content) == content \in {"page", "profile"}

FrOthers == UNCHANGED <<qbVars, cbVars, ynVars, adVars, baVars, ofVars, fiVars, txVars, cpVars, ctVars, ujVars>>

FrInit ==
    /\ frVariant \in {"ashby", "ashbyMac"}
    /\ frHasValue \in BOOLEAN
    /\ frField \in {"empty", "blank", "page"}
    /\ frPc = "enter"
    /\ frWrites = 0
    /\ frOver = "none"
    /\ frRet = "none"

FrIdle ==
    /\ frVariant = "off"
    /\ frHasValue = FALSE
    /\ frField = "empty"
    /\ frPc = "off"
    /\ frWrites = 0
    /\ frOver = "none"
    /\ frRet = "none"

FrReturn(r) == frPc' = "done" /\ frRet' = r

\* if (!value) return false; if (!(await loc.isVisible(...))) return false
\* (a rejected isVisible lands in the catch, which returns false as well)
FrEnter ==
    /\ FrOthers
    /\ frPc = "enter"
    /\ \E visible \in BOOLEAN :
        IF frHasValue /\ visible THEN frPc' = "read" /\ frRet' = frRet
        ELSE FrReturn("false")
    /\ UNCHANGED <<frVariant, frHasValue, frField, frWrites, frOver>>

\* const existing = await loc.inputValue().catch(() => "");
\* if (existing && existing.trim().length > 0) return false
FrRead ==
    /\ FrOthers
    /\ frPc = "read"
    /\ \E raised \in BOOLEAN :
        LET existing == IF raised THEN "empty" ELSE frField
        IN  IF FrNonEmpty(existing) THEN FrReturn("false")
            ELSE /\ frPc' = IF frVariant = "ashby" THEN "readAgain" ELSE "fill"
                 /\ frRet' = frRet
    /\ UNCHANGED <<frVariant, frHasValue, frField, frWrites, frOver>>

\* ashby.ts only: const existingAgain = await loc.inputValue().catch(() => "");
\* if (existingAgain && existingAgain.trim().length > 0) return false
FrReadAgain ==
    /\ FrOthers
    /\ frPc = "readAgain"
    /\ \E raised \in BOOLEAN :
        LET existingAgain == IF raised THEN "empty" ELSE frField
        IN  IF FrNonEmpty(existingAgain) THEN FrReturn("false")
            ELSE frPc' = "fill" /\ frRet' = frRet
    /\ UNCHANGED <<frVariant, frHasValue, frField, frWrites, frOver>>

\* await loc.fill(value); return true  (a rejected fill returns false)
FrFill ==
    /\ FrOthers
    /\ frPc = "fill"
    /\ \E raised \in BOOLEAN :
        IF raised
        THEN FrReturn("false") /\ UNCHANGED <<frField, frOver>>
        ELSE FrReturn("true") /\ frField' = "profile" /\ frOver' = frField
    /\ UNCHANGED <<frVariant, frHasValue, frWrites>>

\* the page writes the field on its own while the call is under way:
\* platform autofill puts a value in, or a re-render resets the input
FrPageWrite ==
    /\ FrOthers
    /\ frPc \in {"enter", "read", "readAgain", "fill"}
    /\ frWrites < MaxPageWrites
    /\ \E content \in {"page", "empty"} :
        /\ content # frField
        /\ frField' = content
    /\ frWrites' = frWrites + 1
    /\ UNCHANGED <<frVariant, frHasValue, frPc, frOver, frRet>>

FrNext == FrEnter \/ FrRead \/ FrReadAgain \/ FrFill \/ FrPageWrite

\* C23: fillInputIfEmpty never overwrites a value the page wrote into the
\* field while the call was under way: under every interleaving of the page's
\* writes with the visibility check, the reads and the fill, the field is
\* empty at the moment the fill is performed.
C23_FillOnlyIntoEmptyField ==
    frOver \in {"none", "empty", "blank"}

(***************************************************************************)
(* The control panel (controllerUi.ts) and the child process it runs       *)
(*   startProcess 91-130, the request handlers 177-201 and 215-245, the    *)
(*   keypress handler of the batch it controls (applyBatch_mac.ts 144-175) *)
(* Every handler of the server runs to its end before the next one starts; *)
(* the child runs on its own and reads its standard input when it gets to  *)
(* it.                                                                     *)
(***************************************************************************)
MaxSpawns == 2
MaxControls == 3

CtPids == 1..MaxSpawns
CtKinds == {"collect", "apply"}
CtActions == {"pause", "resume", "stop", "kill", "other"}

\* setupControls: paused, stopped and inputLocked of a batch that has just
\* started
CtFreshControls == [paused |-> FALSE, stopped |-> FALSE, inputLocked |-> FALSE]

\* the keypress handler of the batch (applyBatch_mac.ts 144-175)
keypress(c, key) ==
    IF c.inputLocked THEN c
    ELSE CASE key = "ctrl-c" -> [c EXCEPT !.stopped = TRUE]
           [] key = "return" -> [c EXCEPT !.paused = ~c.paused]
           [] key = "p"      -> [c EXCEPT !.paused = TRUE]
           [] key = "r"      -> [c EXCEPT !.paused = FALSE]
           [] key \in {"s", "q"} -> [c EXCEPT !.stopped = TRUE, !.inputLocked = TRUE]
           [] OTHER          -> c

\* what the /api/control handler writes to child.stdin for an action
\* (controllerUi.ts 230-232), as the keys readline makes of it: a line feed
\* arrives as the key named "enter", a carriage return as "return"
CtStdinWrite(action) ==
    CASE action = "pause"  -> <<"p", "enter">>
      [] action = "resume" -> <<"p", "enter">>
      [] action = "stop"   -> <<"s", "enter">>
      [] OTHER             -> <<>>

\* startProcess 92: if (running || child)
CtBusy_Never == FALSE

CtBusy == ctRunning \/ ctChild # 0

CtNoStart == [made |-> FALSE, hadChild |-> FALSE, ok |-> FALSE, spawned |-> FALSE]

CtOthers == UNCHANGED <<qbVars, cbVars, ynVars, adVars, baVars, ofVars, fiVars, txVars, cpVars, frVars, ujVars>>

CtInit ==
    /\ ctChild = 0
    /\ ctRunning = FALSE
    /\ ctRunKind = "idle"
    /\ ctLastCollectCompleted = FALSE
    /\ ctProc = [p \in CtPids |-> "none"]
    /\ ctKind = [p \in CtPids |-> "idle"]
    /\ ctTimers = <<>>
    /\ ctForceKills = {}
    /\ ctKeys = <<>>
    /\ ctControls = CtFreshControls
    /\ ctPanel = "none"
    /\ ctRequests = 0
    /\ ctStart = CtNoStart

CtIdle ==
    /\ ctChild = 0
    /\ ctRunning = FALSE
    /\ ctRunKind = "off"
    /\ ctLastCollectCompleted = FALSE
    /\ ctProc = [p \in CtPids |-> "none"]
    /\ ctKind = [p \in CtPids |-> "idle"]
    /\ ctTimers = <<>>
    /\ ctForceKills = {}
    /\ ctKeys = <<>>
    /\ ctControls = CtFreshControls
    /\ ctPanel = "none"
    /\ ctRequests = 0
    /\ ctStart = CtNoStart

CtOn == ctRunKind # "off"
CtSpawned == Cardinality({p \in CtPids : ctProc[p] # "none"})

\* POST /api/apply, and POST /api/collect with a URL: startProcess
CtStartRequest ==
    /\ CtOthers
    /\ CtOn
    /\ \E kind \in CtKinds :
        IF CtBusy
        THEN /\ ctStart' = [made |-> TRUE, hadChild |-> ctChild # 0,
                            ok |-> FALSE, spawned |-> FALSE]
             /\ UNCHANGED <<ctChild, ctRunning, ctRunKind, ctProc, ctKind, ctKeys,
                            ctControls, ctPanel>>
        ELSE /\ CtSpawned < MaxSpawns
             /\ LET pid == CtSpawned + 1 IN
                /\ ctChild' = pid
                /\ ctProc' = [ctProc EXCEPT ![pid] = "alive"]
                /\ ctKind' = [ctKind EXCEPT ![pid] = kind]
             /\ ctRunning' = TRUE
             /\ ctRunKind' = kind
             /\ ctKeys' = <<>>
             /\ ctControls' = CtFreshControls
             /\ ctPanel' = "none"
             /\ ctStart' = [made |-> TRUE, hadChild |-> ctChild # 0,
                            ok |-> TRUE, spawned |-> TRUE]
    /\ UNCHANGED <<ctLastCollectCompleted, ctTimers, ctForceKills, ctRequests>>

\* POST /api/collect without a URL: answered 400 before startProcess
CtCollectWithoutUrl ==
    /\ CtOthers
    /\ CtOn
    /\ ctStart' = [made |-> TRUE, hadChild |-> ctChild # 0,
                   ok |-> FALSE, spawned |-> FALSE]
    /\ UNCHANGED <<ctChild, ctRunning, ctRunKind, ctLastCollectCompleted, ctProc,
                   ctKind, ctTimers, ctForceKills, ctKeys, ctControls, ctPanel,
                   ctRequests>>

\* POST /api/control (controllerUi.ts 215-245)
CtControlRequest ==
    /\ CtOthers
    /\ CtOn
    /\ ctRequests < MaxControls
    /\ ctRequests' = ctRequests + 1
    /\ \E action \in CtActions :
        IF ctChild = 0
        THEN UNCHANGED <<ctKeys, ctTimers, ctPanel>>
        ELSE /\ ctKeys' = IF ctProc[ctChild] = "alive"
                          THEN ctKeys \o CtStdinWrite(action) ELSE ctKeys
             /\ ctTimers' = IF action = "kill" THEN Append(ctTimers, ctChild)
                            ELSE ctTimers
             /\ ctPanel' = action
    /\ UNCHANGED <<ctChild, ctRunning, ctRunKind, ctLastCollectCompleted, ctProc,
                   ctKind, ctForceKills, ctControls, ctStart>>

\* the timer of a kill request comes due (controllerUi.ts 235-240): it
\* kills the process tree of whatever `child` is at that moment
CtForceKill ==
    /\ CtOthers
    /\ CtOn
    /\ ctTimers # <<>>
    /\ ctTimers' = Tail(ctTimers)
    /\ IF ctChild # 0
       THEN /\ ctForceKills' = ctForceKills \cup
                                 {[for |-> Head(ctTimers), killed |-> ctChild]}
            /\ ctProc' = [ctProc EXCEPT ![ctChild] = "exited"]
       ELSE UNCHANGED <<ctForceKills, ctProc>>
    /\ UNCHANGED <<ctChild, ctRunning, ctRunKind, ctLastCollectCompleted, ctKind,
                   ctKeys, ctControls, ctPanel, ctRequests, ctStart>>

\* the child reads one key from its standard input
CtChildKey ==
    /\ CtOthers
    /\ ctChild # 0
    /\ ctProc[ctChild] = "alive"
    /\ ctKeys # <<>>
    /\ ctKeys' = Tail(ctKeys)
    /\ ctControls' = IF ctKind[ctChild] = "apply"
                     THEN keypress(ctControls, Head(ctKeys)) ELSE ctControls
    /\ UNCHANGED <<ctChild, ctRunning, ctRunKind, ctLastCollectCompleted, ctProc,
                   ctKind, ctTimers, ctForceKills, ctPanel, ctRequests, ctStart>>

\* the child process ends: its work is done, or a signal ended it
CtChildExit ==
    /\ CtOthers
    /\ \E p \in CtPids :
        /\ ctProc[p] = "alive"
        /\ ctProc' = [ctProc EXCEPT ![p] = "exited"]
    /\ UNCHANGED <<ctChild, ctRunning, ctRunKind, ctLastCollectCompleted, ctKind,
                   ctTimers, ctForceKills, ctKeys, ctControls, ctPanel,
                   ctRequests, ctStart>>

\* child.on("close", ...) of an ended child (controllerUi.ts 121-127)
CtClose ==
    /\ CtOthers
    /\ \E p \in CtPids :
        /\ ctProc[p] = "exited"
        /\ ctProc' = [ctProc EXCEPT ![p] = "closed"]
        /\ ctLastCollectCompleted' = (ctLastCollectCompleted \/ ctKind[p] = "collect")
    /\ ctRunning' = FALSE
    /\ ctRunKind' = "idle"
    /\ ctChild' = 0
    /\ UNCHANGED <<ctKind, ctTimers, ctForceKills, ctKeys, ctControls, ctPanel,
                   ctRequests, ctStart>>

CtNext ==
    \/ CtStartRequest
    \/ CtCollectWithoutUrl
    \/ CtControlRequest
    \/ CtForceKill
    \/ CtChildKey
    \/ CtChildExit
    \/ CtClose

\* C26: a pause action of the control panel puts the running batch into the
\* paused state and a following resume action takes it out of it: once the
\* batch has read what the panel wrote, it is paused if the panel's last
\* action was pause and not paused if it was resume.
C26_PanelPauseAndResume ==
    (/\ ctChild # 0
     /\ ctProc[ctChild] = "alive"
     /\ ctKind[ctChild] = "apply"
     /\ ctKeys = <<>>
     /\ ~ctControls.stopped) =>
        /\ ctPanel = "pause" => ctControls.paused
        /\ ctPanel = "resume" => ~ctControls.paused

\* C27: the force-kill scheduled by a kill request only ever kills the
\* process the request was issued for.
C27_ForceKillHitsItsOwnProcess ==
    \A k \in ctForceKills : k.killed = k.for

\* C28: at most one child process is alive at any time; a start request
\* received while a child exists spawns nothing and is answered ok false;
\* running is true exactly when a child exists and runKind is idle exactly
\* when none does.
C28_OneChildAtATime ==
    /\ Cardinality({p \in CtPids : ctProc[p] = "alive"}) <= 1
    /\ (ctStart.made /\ ctStart.hadChild) => (~ctStart.ok /\ ~ctStart.spawned)
    /\ CtOn => /\ ctRunning <=> (ctChild # 0)
               /\ (ctRunKind = "idle") <=> (ctChild = 0)

\* C28 witness: an apply was asked for while the collect child was alive;
\* the request was answered ok false and the collect child is still the one
\* child
C28_Witness_SecondStartRefused ==
    /\ ctStart.made /\ ctStart.hadChild /\ ~ctStart.ok
    /\ ctChild = 1
    /\ ctProc[1] = "alive"
    /\ ctProc[2] = "none"
    /\ ctRunning /\ ctRunKind = "collect"

(***************************************************************************)
(* unknownJobs.js and the programs that read and write it                  *)
(*   applyBatch_mac.ts 202-267  readUnknownLinks, mergeUnknownLinks,       *)
(*                              writeUnknownLinks, recordUnknownJob        *)
(*   src/unnamed/part_001 420-447, 584-589  the same in the second batch   *)
(*                              program of that file ("windows" below)     *)
(*   unknownJobsUi.ts 14-44, 82-99  parseUnknownJobs, writeUnknownJobs and *)
(*                              the reject request                         *)
(*   controllerUi.ts 138-141    clearUnknownJobs                           *)
(* The file is the sequence of its entries [id, role, company, link]; ""   *)
(* is an empty or absent field.  Each read and each write is modelled by   *)
(* what its regular expressions and its template keep of an entry.         *)
(***************************************************************************)
MaxFileOps == 5

\* the jobs a run may fail to place
UjJobs ==
    { [id |-> "1", role |-> "Engineer", company |-> "Acme", link |-> "L1"],
      [id |-> "",  role |-> "",         company |-> "",     link |-> "L2"],
      [id |-> "2", role |-> "",         company |-> "Acme", link |-> "L1"],
      [id |-> "2", role |-> "Analyst",  company |-> "",     link |-> "L3"] }

\* the bodies of a reject request: link and id, "none" when not given
UjPayloads == [link : {"none", "L1", "L2"}, id : {"none", "2"}]

UjLinksOf(entries) == {entries[k].link : k \in DOMAIN entries}

\* applyBatch_mac.ts 202-236: the pattern finds the array, JSON.parse reads
\* it (after the trailing comma the UI leaves is dropped), and every entry
\* comes back with its id, role, company and link
readUnknownLinks(file) == file

\* src/unnamed/part_001 420-435: the pattern is written with doubled
\* backslashes, /unknownJobs\\s*=\\s*(\\[[\\s\\S]*\\]);/, and so asks for a
\* backslash after "unknownJobs"; no file the programs write has one, the
\* match is null and the function returns []
readUnknownLinks_windows(file) == <<>>

\* applyBatch_mac.ts 238-254: a Map keyed by link; an entry already there
\* keeps its place and its id, and takes role and company when it has none
RECURSIVE mergeUnknownLinks(_, _)
mergeUnknownLinks(existing, incoming) ==
    IF incoming = <<>> THEN existing
    ELSE LET item == Head(incoming)
             hits == {k \in DOMAIN existing : existing[k].link = item.link}
             next ==
                IF hits = {} THEN Append(existing, item)
                ELSE [k \in DOMAIN existing |->
                        IF k \in hits
                        THEN [existing[k] EXCEPT
                                !.role = IF @ = "" THEN item.role ELSE @,
                                !.company = IF @ = "" THEN item.company ELSE @]
                        ELSE existing[k]]
         IN  mergeUnknownLinks(next, Tail(incoming))

\* src/unnamed/part_001 437-447: a Set of the links seen; entries are
\* { id, link }
RECURSIVE mergeUnknownLinks_windows(_, _)
mergeUnknownLinks_windows(existing, incoming) ==
    IF incoming = <<>> THEN existing
    ELSE LET item == Head(incoming)
             next == IF item.link \in UjLinksOf(existing) THEN existing
                     ELSE Append(existing, item)
         IN  mergeUnknownLinks_windows(next, Tail(incoming))

\* unknownJobsUi.ts 14-31: per line, "id" (at least one character, else
\* undefined) and "link"; role and company are not read
parseUnknownJobs(file) ==
    [k \in DOMAIN file |->
        [id |-> IF file[k].id = "" THEN "undefined" ELSE file[k].id,
         link |-> file[k].link]]

\* unknownJobsUi.ts 40-44: `{ "id": "${j.id ?? ""}", "link": "${j.link}" },`
writeUnknownJobs(jobs) ==
    [k \in DOMAIN jobs |->
        [id |-> IF jobs[k].id = "undefined" THEN "" ELSE jobs[k].id,
         role |-> "", company |-> "", link |-> jobs[k].link]]

\* unknownJobsUi.ts 94: jobs.filter((j) => payload.link ? j.link !==
\* payload.link : j.id !== payload.id); a missing payload.id is undefined
RejectFilter(jobs, payload) ==
    SelectSeq(jobs, LAMBDA j :
        IF payload.link # "none" THEN j.link # payload.link
        ELSE j.id # (IF payload.id = "none" THEN "undefined" ELSE payload.id))

UjNoOp == [op |-> "none", before |-> <<>>, memory |-> <<>>,
           payload |-> [link |-> "none", id |-> "none"]]

UjOthers == UNCHANGED <<qbVars, cbVars, ynVars, adVars, baVars, ofVars, fiVars, txVars, cpVars, frVars, ctVars>>

UjInit ==
    /\ ujFile = <<>>
    /\ ujRun = "none"
    /\ ujMemory = <<>>
    /\ ujSaved = {}
    /\ ujOps = 0
    /\ ujLast = UjNoOp

UjIdle ==
    /\ ujFile = <<>>
    /\ ujRun = "off"
    /\ ujMemory = <<>>
    /\ ujSaved = {}
    /\ ujOps = 0
    /\ ujLast = UjNoOp

UjStep == ujRun # "off" /\ ujOps < MaxFileOps /\ ujOps' = ujOps + 1

\* a batch run starts: const unknownLinks: UnknownJob[] = []
UjStartRun ==
    /\ UjOthers
    /\ UjStep
    /\ ujRun = "none"
    /\ ujRun' \in {"mac", "windows"}
    /\ ujMemory' = <<>>
    /\ ujLast' = [UjNoOp EXCEPT !.op = "start", !.before = ujFile]
    /\ UNCHANGED <<ujFile, ujSaved>>

\* the run meets a job it cannot place.  applyBatch_mac.ts 328-331 (and
\* 342-345, 366-369, 413-416): unknownLinks.push(job) and
\* recordUnknownJob(path, job); part_001 548: unknownLinks.push({ id, link })
UjUnknownJob ==
    /\ UjOthers
    /\ UjStep
    /\ ujRun \in {"mac", "windows"}
    /\ \E job \in UjJobs :
        IF ujRun = "mac"
        THEN /\ ujMemory' = Append(ujMemory, job)
             /\ ujFile' = mergeUnknownLinks(readUnknownLinks(ujFile), <<job>>)
             /\ ujSaved' = ujSaved \cup {job.link}
        ELSE /\ ujMemory' = Append(ujMemory, [job EXCEPT !.role = "", !.company = ""])
             /\ UNCHANGED <<ujFile, ujSaved>>
    /\ ujLast' = [UjNoOp EXCEPT !.op = "job", !.before = ujFile]
    /\ UNCHANGED ujRun

\* the run ends: read, merge with unknownLinks, write
\* (applyBatch_mac.ts 435-437, part_001 584-589)
UjEndRun ==
    /\ UjOthers
    /\ UjStep
    /\ ujRun \in {"mac", "windows"}
    /\ ujFile' = IF ujRun = "mac"
                 THEN mergeUnknownLinks(readUnknownLinks(ujFile), ujMemory)
                 ELSE mergeUnknownLinks_windows(readUnknownLinks_windows(ujFile),
                                                ujMemory)
    /\ ujSaved' = ujSaved \cup UjLinksOf(ujMemory)
    /\ ujLast' = [UjNoOp EXCEPT !.op = "end", !.before = ujFile, !.memory = ujMemory]
    /\ ujRun' = "none"
    /\ ujMemory' = <<>>

\* POST /api/reject of the unknown-jobs UI (unknownJobsUi.ts 82-99)
UjReject ==
    /\ UjOthers
    /\ UjStep
    /\ \E payload \in UjPayloads :
        /\ ujFile' = writeUnknownJobs(RejectFilter(parseUnknownJobs(ujFile), payload))
        /\ ujLast' = [UjNoOp EXCEPT !.op = "reject", !.before = ujFile,
                                    !.payload = payload]
    /\ ujSaved' = ujSaved \cap UjLinksOf(ujFile')
    /\ UNCHANGED <<ujRun, ujMemory>>

\* POST /api/clear/unknown of the control panel (controllerUi.ts 138-141)
UjClear ==
    /\ UjOthers
    /\ UjStep
    /\ ujFile # <<>>
    /\ ujFile' = <<>>
    /\ ujSaved' = {}
    /\ ujLast' = [UjNoOp EXCEPT !.op = "clear", !.before = ujFile]
    /\ UNCHANGED <<ujRun, ujMemory>>

UjNext == UjStartRun \/ UjUnknownJob \/ UjEndRun \/ UjReject \/ UjClear

\* C29: recording unknown jobs never loses and never duplicates entries:
\* unknownJobs.js holds every link that a run saved and nobody removed, and,
\* when a run has ended, every link that run recorded, each link once.
C29_NoLinkLostOrDuplicated ==
    /\ ujSaved \subseteq UjLinksOf(ujFile)
    /\ ujLast.op = "end" => UjLinksOf(ujLast.memory) \subseteq UjLinksOf(ujFile)
    /\ \A i, j \in DOMAIN ujFile : ujFile[i].link = ujFile[j].link => i = j

\* C30: a reject request removes exactly the entries whose link equals the
\* rejected link (whose id equals the rejected id when no link is given) and
\* leaves every other entry as it was, id, role and company included; a
\* request that names neither removes nothing.
C30_RejectRemovesOnlyTheRejected ==
    ujLast.op = "reject" =>
        ujFile = SelectSeq(ujLast.before, LAMBDA e :
                    IF ujLast.payload.link # "none" THEN e.link # ujLast.payload.link
                    ELSE IF ujLast.payload.id # "none" THEN e.id # ujLast.payload.id
                    ELSE TRUE)

vars == <<qbVars, cbVars, ynVars, adVars, baVars, ofVars, fiVars, txVars, cpVars, frVars, ctVars, ujVars>>

BlockInit == QbInit /\ CbIdle /\ YnIdle /\ AdIdle /\ BaIdle /\ OfIdle /\ FiIdle /\ TxIdle /\ CpIdle /\ FrIdle /\ CtIdle /\ UjIdle

SpecBlock == BlockInit /\ [][QbNext]_vars

ComboInit == CbInit /\ QbIdle /\ YnIdle /\ AdIdle /\ BaIdle /\ OfIdle /\ FiIdle /\ TxIdle /\ CpIdle /\ FrIdle /\ CtIdle /\ UjIdle

SpecCombo == ComboInit /\ [][fillComboboxForQuestion]_vars

YesNoInit == YnInit /\ QbIdle /\ CbIdle /\ AdIdle /\ BaIdle /\ OfIdle /\ FiIdle /\ TxIdle /\ CpIdle /\ FrIdle /\ CtIdle /\ UjIdle

SpecYesNo == YesNoInit /\ [][YnNext]_vars

AdapterInit == AdInit /\ QbIdle /\ CbIdle /\ YnIdle /\ BaIdle /\ OfIdle /\ FiIdle /\ TxIdle /\ CpIdle /\ FrIdle /\ CtIdle /\ UjIdle

SpecAdapter == AdapterInit /\ [][AdNext]_vars

BatchInit == BaInit /\ QbIdle /\ CbIdle /\ YnIdle /\ AdIdle /\ OfIdle /\ FiIdle /\ TxIdle /\ CpIdle /\ FrIdle /\ CtIdle /\ UjIdle

SpecBatch == BatchInit /\ [][BaNext]_vars

OfficeInit == OfInit /\ QbIdle /\ CbIdle /\ YnIdle /\ AdIdle /\ BaIdle /\ FiIdle /\ TxIdle /\ CpIdle /\ FrIdle /\ CtIdle /\ UjIdle

SpecOffice == OfficeInit /\ [][OfNext]_vars

FillInit == FiInit /\ QbIdle /\ CbIdle /\ YnIdle /\ AdIdle /\ BaIdle /\ OfIdle /\ TxIdle /\ CpIdle /\ FrIdle /\ CtIdle /\ UjIdle

SpecFill == FillInit /\ [][FiNext]_vars

TextInit == TxInit /\ QbIdle /\ CbIdle /\ YnIdle /\ AdIdle /\ BaIdle /\ OfIdle /\ FiIdle /\ CpIdle /\ FrIdle /\ CtIdle /\ UjIdle

SpecText == TextInit /\ [][TxNext]_vars

PassInit == CpInit /\ QbIdle /\ CbIdle /\ YnIdle /\ AdIdle /\ BaIdle /\ OfIdle /\ FiIdle /\ TxIdle /\ FrIdle /\ CtIdle /\ UjIdle

SpecPass == PassInit /\ [][CpNext]_vars

RaceInit == FrInit /\ QbIdle /\ CbIdle /\ YnIdle /\ AdIdle /\ BaIdle /\ OfIdle /\ FiIdle /\ TxIdle /\ CpIdle /\ CtIdle /\ UjIdle

SpecRace == RaceInit /\ [][FrNext]_vars

PanelInit == CtInit /\ QbIdle /\ CbIdle /\ YnIdle /\ AdIdle /\ BaIdle /\ OfIdle /\ FiIdle /\ TxIdle /\ CpIdle /\ FrIdle /\ UjIdle

SpecPanel == PanelInit /\ [][CtNext]_vars

UnknownInit == UjInit /\ QbIdle /\ CbIdle /\ YnIdle /\ AdIdle /\ BaIdle /\ OfIdle /\ FiIdle /\ TxIdle /\ CpIdle /\ FrIdle /\ CtIdle

SpecUnknown == UnknownInit /\ [][UjNext]_vars
====
